---- MODULE Spec2Model ----
(***************************************************************************)
(* cdimage: the track encoder.  Sequential driver (Converter.Convert), the *)
(* interleaver and sector buffer (ad, n2m, bw) and the parallel pipeline   *)
(* (MultiThreadedConverter.ConvertParallel: job generator, track workers,  *)
(* result collector).                                                      *)
(*                                                                         *)
(* float64 quantities (tr, c, r, dtr) are fixed-point numbers in units of  *)
(* 1/Den.  The trigonometric pixel lookup is abstracted by PixelOf, the    *)
(* same operator in both drivers, as the same expression is in the code.   *)
(***************************************************************************)
EXTENDS Integers, Sequences, FiniteSets, TLC

\* ------------------------------------------------------------ constants
D == 4
SectorSize == 2352
CDTotalSize == 800 * 1024 * 1024
Den == 2

RingSize == 24 * 28 * D
Frames == 28 * D

delays ==
  << -24 * 3, -24 * (1 * D + 2) + 1, 8 - 24 * (2 * D + 3), 8 - 24 * (3 * D + 2) + 1,
     16 - 24 * (4 * D + 3), 16 - 24 * (5 * D + 2) + 1, 2 - 24 * (6 * D + 3),
     2 - 24 * (7 * D + 2) + 1, 10 - 24 * (8 * D + 3), 10 - 24 * (9 * D + 2) + 1,
     18 - 24 * (10 * D + 3), 18 - 24 * (11 * D + 2) + 1,
     4 - 24 * (16 * D + 1), 4 - 24 * (17 * D) + 1, 12 - 24 * (18 * D + 1),
     12 - 24 * (19 * D) + 1, 20 - 24 * (20 * D + 1), 20 - 24 * (21 * D) + 1,
     6 - 24 * (22 * D + 1), 6 - 24 * (23 * D) + 1, 14 - 24 * (24 * D + 1),
     14 - 24 * (25 * D) + 1, 22 - 24 * (26 * D + 1), 22 - 24 * (27 * D) + 1 >>

\* delays[conv.pinf] with the Go 0-based index
Delay(p) == delays[p + 1]

palette == << 16, 33, 40, 170 >>

\* ------------------------------------------------------------ bounds
\* symbol budget of the short runs (stands for CDTotalSize / DVDTotalSize)
SmallTotal == 30
\* symbol budget of the long run: two sectors and two turns of the ring
LongTotal == 5500
\* markers fed to the interleaver on its own
MaxFeed == 5500
\* pixels of the abstract image
NPix == 3
\* logical CPUs of the machine, at most
MaxCPU == 9
\* calls of SetNumWorkers before a run
MaxSetCalls == 2
\* calls of Convert on one Converter
MaxRuns == 2
\* failing writes of the reassembly stage in one run
MaxWriteFails == 1
\* symbol budget of the parallel runs
ParTotal == 10
\* symbol budget of the runs to the edge of the budget: tracks of 1.5 symbols end
\* half a symbol short of it, and the last track starts past 99 per cent
EdgeTotal == 200
\* symbol budget of the scheduled parallel runs: three tracks of one sample, one
\* more than the job channel of a single worker holds
LiveTotal == 4
\* symbol budget of the two-worker runs of one-sample tracks: more tracks than
\* the two channels and the workers hold together
ManyTotal == 13
\* symbol budget of the one-worker runs of growing tracks: more than 17 tracks
DeepTotal == 105

\* ------------------------------------------------------------ state
VARIABLES
  \* inputs of a run; maxFails: how many writes of the reassembly stage the
  \* file system lets fail in the run
  tr0, dtr, r0, totalSize, img, maxFails,
  \* Converter.mixColors: random instead of ordered dithering
  mixColors,
  \* cancellation: the cancel callback's flag and the context
  cancelled, ctxDone,
  \* Converter fields
  intseq, nh, pinf, buffer,
  \* Convert: locals, position, result, output file
  seqPc, tr, r, c, zs, zf, i, seqRet, seqFile, seqFileExists,
  \* Convert: observations (write sizes, progress values, whether a write may fail)
  seqWrites, seqProgress, seqSince,
  \* interleaver fed on its own: markers fed
  fed,
  \* MultiThreadedConverter fields: worker count, the two channels
  numWorkers, chanCap, jobs, jobsClosed, results, resultsClosed,
  \* job generator goroutine
  genPc, gtr, gr, gc, gzs, gzf, trackIndex, parProgress,
  \* track workers
  wPc, wJob, wI, wData, wZf,
  \* result collector goroutine and the output file
  colPc, trackBuffer, nextTrackToWrite, parFile, parWrites,
  \* ConvertParallel itself: position, return value, the file os.Create made
  mainPc, parRet, parFileExists,
  \* observations: errors the collector received, work done after ctx was cancelled
  errSeen, writeFails, gSince, wSince, colSince,
  \* history: jobs sent, track indices received by workers, number of results
  \* sent per track index, track indices for which processTrack returned an error
  issued, taken, published, errTracks,
  \* burnImage: position, arguments, return value, message printed at the end
  burnPc, burnArgs, burnRet, burnMsg,
  \* the GUI: whether the "Burn to Disc" button is enabled
  burnBtn,
  \* the quantization of one sample on its own: its inputs and the index chosen
  quant,
  \* the track loop on its own: the locals c, tr, r, zs at the head of the loop
  \* and the number of tracks begun
  walk,
  \* runtime.NumCPU() and the arguments of the calls of SetNumWorkers so far
  numCPU, setCalls,
  \* the number of calls of Convert on the converter so far
  seqRuns

convVars == << intseq, nh, pinf, buffer >>
inVars == << tr0, dtr, r0, totalSize, img, maxFails, mixColors >>
envVars == << cancelled, ctxDone >>
seqVars == << seqPc, tr, r, c, zs, zf, i, seqRet, seqFile, seqFileExists,
              seqWrites, seqProgress, seqSince >>
ilvVars == << fed >>
chanVars == << numWorkers, chanCap, jobs, jobsClosed, results, resultsClosed >>
genVars == << genPc, gtr, gr, gc, gzs, gzf, trackIndex, parProgress >>
wrkVars == << wPc, wJob, wI, wData, wZf >>
colVars == << colPc, trackBuffer, nextTrackToWrite, parFile, parWrites >>
mainVars == << mainPc, parRet, parFileExists >>
obsVars == << errSeen, writeFails, gSince, wSince, colSince >>
histVars == << issued, taken, published, errTracks >>
parVars == << chanVars, genVars, wrkVars, colVars, mainVars, obsVars, histVars >>
burnVars == << burnPc, burnArgs, burnRet, burnMsg, burnBtn >>
quantVars == << quant, walk >>
setupVars == << numCPU, setCalls, seqRuns >>
vars == << inVars, burnVars, quantVars, setupVars, envVars, convVars, seqVars, ilvVars, parVars >>

\* int(x) of a non-negative float64
Trunc(x) == x \div Den

\* ------------------------------------------------------------ quantization
\* sampleImage at (cx + ri cos(alpha), cy + ri sin(alpha)) followed by rgbaToGray:
\* the luminance of the pixel that sample k of a track of n samples at radius
\* rad falls on
PixelOf(rad, k, n) == (Trunc(rad) + (k * NPix) \div n) % NPix

GrayAt(image, rad, k, n) == image[PixelOf(rad, k, n)]

\* ordered dithering without the case remainder = 84
OrderedIndex_No84(gray, ringPhase, samplePhase) ==
  LET c1 == gray \div 85
      c2 == IF c1 + 1 > 3 THEN 3 ELSE c1 + 1
      grayMod == gray % 85
  IN IF grayMod > (ringPhase * 5 + samplePhase) THEN c2 ELSE c1

\* ordered dithering choosing the high index from remainder = threshold on
OrderedIndex_Inclusive(gray, ringPhase, samplePhase) ==
  LET c1 == gray \div 85
      c2 == IF c1 + 1 > 3 THEN 3 ELSE c1 + 1
      grayMod == gray % 85
  IN IF grayMod >= (ringPhase * 5 + samplePhase) \/ grayMod = 84 THEN c2 ELSE c1

\* ordered dithering: the palette index of a gray value
OrderedIndex(gray, ringPhase, samplePhase) ==
  LET c1 == gray \div 85
      c2 == IF c1 + 1 > 3 THEN 3 ELSE c1 + 1
      grayMod == gray % 85
  IN IF grayMod > (ringPhase * 5 + samplePhase) \/ grayMod = 84 THEN c2 ELSE c1

\* random dithering choosing among four equal bands of 64 gray levels
RandomIndex_Bands64(gray, draw) ==
  LET c1 == gray \div 64
      c2 == IF c1 + 1 > 3 THEN 3 ELSE c1 + 1
      grayMod == gray % 85
  IN IF draw < grayMod \/ grayMod = 84 THEN c2 ELSE c1

\* random dithering: the palette index of a gray value, draw being rand.Intn(85)
RandomIndex(gray, draw) ==
  LET c1 == gray \div 85
      c2 == IF c1 + 1 > 3 THEN 3 ELSE c1 + 1
      grayMod == gray % 85
  IN IF draw < grayMod \/ grayMod = 84 THEN c2 ELSE c1

\* the quantization of one sample in either mode
Quantize(gray, mix, ringPhase, samplePhase, draw) ==
  IF mix THEN RandomIndex(gray, draw) ELSE OrderedIndex(gray, ringPhase, samplePhase)

\* the values rand.Intn(85) can return where it is called
Draws == IF mixColors THEN 0..84 ELSE {0}

\* no sample is quantized on its own
NoQuant == [gray |-> 0, mix |-> FALSE, zs |-> 0, zf |-> 0, draw |-> 0, cl |-> -1]

QuantIdle == quant = NoQuant

\* the quantization statements of the sample loop applied to one sample
QuantizeSample ==
  /\ quant.cl = -1
  /\ quant' = [quant EXCEPT !.cl = Quantize(quant.gray, quant.mix, quant.zs,
                                            quant.zf, quant.draw)]
  /\ UNCHANGED << walk, inVars, setupVars, burnVars, envVars, convVars, seqVars, ilvVars, parVars >>

\* ------------------------------------------------------------ interleaver
\* conv.intseq, the ring of 24*28*D bytes, is kept frame by frame: intseq[f] is
\* the 24 bytes intseq[24f .. 24f+23] of the array, and a frame that was never
\* written (all zero since NewConverter) is left out
ZeroFrame == [n \in 1..24 |-> 0]

SlotAt(seq, idx) ==
  IF (idx \div 24) \in DOMAIN seq THEN seq[idx \div 24][(idx % 24) + 1] ELSE 0

SlotPut(seq, idx, b) ==
  IF (idx \div 24) \in DOMAIN seq
  THEN [seq EXCEPT ![idx \div 24][(idx % 24) + 1] = b]
  ELSE ((idx \div 24) :> [ZeroFrame EXCEPT ![(idx % 24) + 1] = b]) @@ seq

\* n2m without the wrap of a negative index
n2m_NoNegativeWrap(frame, n) ==
  LET index == frame * 24 + n
  IN IF index >= 28 * 4 * 24 THEN index - 28 * 4 * 24 ELSE index

n2m(frame, n) ==
  LET index == frame * 24 + n
  IN IF index >= 28 * 4 * 24 THEN index - 28 * 4 * 24
     ELSE IF index < 0 THEN index + 28 * 4 * 24
     ELSE index

\* bw that writes the full buffer and does not reset conv.c
bw_NoReset(st, b, ok) ==
  LET buf == Append(st.buffer, b)
  IN IF Len(buf) >= SectorSize
     THEN [st EXCEPT !.buffer = buf, !.err = ~ok,
                     !.wrote = Append(st.wrote, [data |-> buf, ok |-> ok])]
     ELSE [st EXCEPT !.buffer = buf]

\* bw that writes the sector again when the write has failed, and goes on
bw_Retries(st, b, ok) ==
  LET buf == Append(st.buffer, b)
  IN IF Len(buf) >= SectorSize
     THEN IF ok
          THEN [st EXCEPT !.buffer = << >>,
                          !.wrote = Append(st.wrote, [data |-> buf, ok |-> TRUE])]
          ELSE [st EXCEPT !.buffer = << >>,
                          !.wrote = st.wrote \o << [data |-> buf, ok |-> FALSE],
                                                    [data |-> buf, ok |-> TRUE] >>]
     ELSE [st EXCEPT !.buffer = buf]

\* bw on the state st = [intseq, nh, pinf, buffer, wrote, err]; ok: the write
\* to the file, if this call issues one, succeeds
bw(st, b, ok) ==
  LET buf == Append(st.buffer, b)
  IN IF Len(buf) >= SectorSize
     THEN IF ok
          THEN [st EXCEPT !.buffer = << >>,
                          !.wrote = Append(st.wrote, [data |-> buf, ok |-> TRUE])]
          ELSE [st EXCEPT !.buffer = buf, !.err = TRUE,
                          !.wrote = Append(st.wrote, [data |-> buf, ok |-> FALSE])]
     ELSE [st EXCEPT !.buffer = buf]

RECURSIVE bwLoop(_, _, _)
bwLoop(st, k, ok) ==
  IF k >= 24 \/ st.err THEN st
  ELSE bwLoop(bw(st, SlotAt(st.intseq, n2m(st.nh, k)), ok), k + 1, ok)

\* ad that lets nh reach 28*4 before it wraps
ad_LateWrap(st, b, ok) ==
  LET idx == n2m(st.nh, Delay(st.pinf))
      s1 == [st EXCEPT !.intseq = SlotPut(st.intseq, idx, b), !.pinf = st.pinf + 1]
  IN IF s1.pinf >= 24
     THEN LET n1 == s1.nh + 1
              s2 == [s1 EXCEPT !.pinf = 0, !.nh = IF n1 > 28 * 4 THEN 0 ELSE n1]
          IN bwLoop(s2, 0, ok)
     ELSE s1

ad(st, b, ok) ==
  LET idx == n2m(st.nh, Delay(st.pinf))
      s1 == [st EXCEPT !.intseq = SlotPut(st.intseq, idx, b), !.pinf = st.pinf + 1]
  IN IF s1.pinf >= 24
     THEN LET n1 == s1.nh + 1
              s2 == [s1 EXCEPT !.pinf = 0, !.nh = IF n1 >= 28 * 4 THEN 0 ELSE n1]
          IN bwLoop(s2, 0, ok)
     ELSE s1

ConvState == [intseq |-> intseq, nh |-> nh, pinf |-> pinf, buffer |-> buffer,
              wrote |-> << >>, err |-> FALSE]

\* NewConverter
NewConverterInit ==
  /\ intseq = << >>
  /\ nh = 28 * D - 1
  /\ pinf = 0
  /\ buffer = << >>


\* the bytes that reached the file and the sizes of the writes tried
RECURSIVE Written(_)
Written(w) ==
  IF w = << >> THEN << >>
  ELSE (IF Head(w).ok THEN Head(w).data ELSE << >>) \o Written(Tail(w))

WriteLog(w) == [k \in 1..Len(w) |-> [len |-> Len(w[k].data), ok |-> w[k].ok]]

\* ------------------------------------------------------------ Convert
\* dr := conv.dtr * conv.r0 / conv.tr0
RadiusStep == (dtr * r0) \div tr0

SeqLocalsInit ==
  /\ seqPc = "loop"
  /\ tr = tr0
  /\ r = r0
  /\ c = 0
  /\ zs = 0
  /\ zf = 0
  /\ i = 0
  /\ seqRet = "none"
  /\ seqFile = << >>
  /\ seqFileExists = TRUE
  /\ seqWrites = << >>
  /\ seqProgress = << >>
  /\ seqSince = 0
  /\ seqRuns = 1

SeqIdle ==
  /\ seqPc = "idle"
  /\ tr = 0 /\ r = 0 /\ c = 0 /\ zs = 0 /\ zf = 0 /\ i = 0
  /\ seqRet = "none"
  /\ seqFile = << >>
  /\ seqFileExists = FALSE
  /\ seqWrites = << >>
  /\ seqProgress = << >>
  /\ seqSince = 0
  /\ seqRuns = 0

\* the head of the track loop returning on cancellation without os.Remove
SeqLoopHead_KeepsFile ==
  /\ seqPc = "loop"
  /\ c < totalSize - tr
  /\ IF cancelled \/ ctxDone
     THEN /\ seqPc' = "returned"
          /\ seqRet' = (IF cancelled THEN "conversion cancelled" ELSE "context canceled")
          /\ UNCHANGED << seqProgress, i >>
     ELSE /\ seqPc' = "track"
          /\ seqProgress' = Append(seqProgress, (100 * c) \div totalSize)
          /\ i' = 0
          /\ UNCHANGED seqRet
  /\ UNCHANGED << tr, r, c, zs, zf, seqWrites, seqSince, seqFileExists, seqFile >>
  /\ UNCHANGED << inVars, burnVars, quantVars, setupVars, envVars, convVars, ilvVars, parVars >>

\* the head of the track loop with the condition c < totalSize
SeqLoopHead_WholeBudget ==
  /\ seqPc = "loop"
  /\ c < totalSize
  /\ IF cancelled
     THEN /\ seqPc' = "returned"
          /\ seqRet' = "conversion cancelled"
          /\ seqFileExists' = FALSE
          /\ seqFile' = << >>
          /\ UNCHANGED << seqProgress, i >>
     ELSE IF ctxDone
     THEN /\ seqPc' = "returned"
          /\ seqRet' = "context canceled"
          /\ seqFileExists' = FALSE
          /\ seqFile' = << >>
          /\ UNCHANGED << seqProgress, i >>
     ELSE /\ seqPc' = "track"
          /\ seqProgress' = Append(seqProgress, (100 * c) \div totalSize)
          /\ i' = 0
          /\ UNCHANGED << seqRet, seqFileExists, seqFile >>
  /\ UNCHANGED << tr, r, c, zs, zf, seqWrites, seqSince >>
  /\ UNCHANGED << inVars, burnVars, quantVars, setupVars, envVars, convVars, ilvVars, parVars >>

\* head of the track loop: cancellation checks and the progress callback
SeqLoopHead ==
  /\ seqPc = "loop"
  /\ c < totalSize - tr
  /\ IF cancelled
     THEN /\ seqPc' = "returned"
          /\ seqRet' = "conversion cancelled"
          /\ seqFileExists' = FALSE
          /\ seqFile' = << >>
          /\ UNCHANGED << seqProgress, i >>
     ELSE IF ctxDone
     THEN /\ seqPc' = "returned"
          /\ seqRet' = "context canceled"
          /\ seqFileExists' = FALSE
          /\ seqFile' = << >>
          /\ UNCHANGED << seqProgress, i >>
     ELSE /\ seqPc' = "track"
          /\ seqProgress' = Append(seqProgress, (100 * c) \div totalSize)
          /\ i' = 0
          /\ UNCHANGED << seqRet, seqFileExists, seqFile >>
  /\ UNCHANGED << tr, r, c, zs, zf, seqWrites, seqSince >>
  /\ UNCHANGED << inVars, burnVars, quantVars, setupVars, envVars, convVars, ilvVars, parVars >>

\* the sample loop of a track from sample k up to (not including) kEnd, on the
\* converter state st; it stops at the first failed write; draw is what
\* rand.Intn(85) returns (it is called with mixColors only)
RECURSIVE SampleLoop(_, _, _, _, _, _, _, _, _)
SampleLoop(st, trv, rv, zsv, zfv, k, kEnd, ok, draw) ==
  IF k >= kEnd THEN [st |-> st, zf |-> zfv, i |-> k]
  ELSE LET cl == Quantize(GrayAt(img, rv, k, Trunc(trv)), mixColors, zsv, zfv, draw)
           s1 == ad(st, palette[cl + 1], ok)
       IN IF s1.err THEN [st |-> s1, zf |-> zfv, i |-> k]
          ELSE SampleLoop(s1, trv, rv, zsv, (IF zfv + 1 >= 5 THEN 0 ELSE zfv + 1),
                          k + 1, kEnd, ok, draw)

\* n iterations of the sample loop
SeqSamples(n) ==
  /\ seqPc = "track"
  /\ i + n <= Trunc(tr)
  /\ \E ok \in BOOLEAN, draw \in Draws :
       LET sl == SampleLoop(ConvState, tr, r, zs, zf, i, i + n, ok, draw)
       IN /\ intseq' = sl.st.intseq
          /\ nh' = sl.st.nh
          /\ pinf' = sl.st.pinf
          /\ buffer' = sl.st.buffer
          /\ seqFile' = seqFile \o Written(sl.st.wrote)
          /\ seqWrites' = seqWrites \o WriteLog(sl.st.wrote)
          /\ zf' = sl.zf
          /\ i' = sl.i
          /\ seqSince' = (IF cancelled \/ ctxDone
                          THEN seqSince + (sl.i - i) + (IF sl.st.err THEN 1 ELSE 0)
                          ELSE seqSince)
          /\ IF sl.st.err
             THEN /\ seqPc' = "returned"
                  /\ seqRet' = "failed to write data"
             ELSE UNCHANGED << seqPc, seqRet >>
  /\ UNCHANGED << tr, r, c, zs, seqFileExists, seqProgress >>
  /\ UNCHANGED << inVars, burnVars, quantVars, setupVars, envVars, ilvVars, parVars >>

\* one iteration of the sample loop
SeqSample == SeqSamples(1)

\* from a frame boundary of the interleaver, 24 iterations of the sample loop in
\* one step (ordered dithering: no draw is made)
SeqSampleFrame == pinf = 0 /\ ~mixColors /\ SeqSamples(24)

\* the fill loop after a track: for int(c) > ic, with ic := int(c) taken after
\* c += tr
RECURSIVE FillLoop(_, _, _, _, _)
FillLoop(st, cc, ic, zfv, ok) ==
  IF Trunc(cc) > ic /\ ~st.err
  THEN FillLoop(ad(st, palette[1], ok), cc, ic + 1,
                (IF zfv + 1 >= 4 THEN 0 ELSE zfv + 1), ok)
  ELSE [st |-> st, zf |-> zfv]

\* end of a track: c += tr, the fill loop, tr += dtr, r += dr, zs++
SeqTrackEnd ==
  /\ seqPc = "track"
  /\ i >= Trunc(tr)
  /\ \E ok \in BOOLEAN :
       LET c1 == c + tr
           fl == FillLoop(ConvState, c1, Trunc(c1), zf, ok)
       IN /\ c' = c1
          /\ intseq' = fl.st.intseq
          /\ nh' = fl.st.nh
          /\ pinf' = fl.st.pinf
          /\ buffer' = fl.st.buffer
          /\ zf' = fl.zf
          /\ seqFile' = seqFile \o Written(fl.st.wrote)
          /\ seqWrites' = seqWrites \o WriteLog(fl.st.wrote)
          /\ IF fl.st.err
             THEN /\ seqPc' = "returned"
                  /\ seqRet' = "failed to write data"
                  /\ UNCHANGED << tr, r, zs >>
             ELSE /\ tr' = tr + dtr
                  /\ r' = r + RadiusStep
                  /\ zs' = (IF zs + 1 >= 17 THEN 0 ELSE zs + 1)
                  /\ seqPc' = "loop"
                  /\ UNCHANGED seqRet
  /\ UNCHANGED << i, seqFileExists, seqProgress, seqSince >>
  /\ UNCHANGED << inVars, burnVars, quantVars, setupVars, envVars, ilvVars, parVars >>

\* the end of Convert without the write of the remaining buffer
SeqFlush_DropsResidue ==
  /\ seqPc = "loop"
  /\ ~(c < totalSize - tr)
  /\ seqRet' = "nil"
  /\ seqPc' = "returned"
  /\ UNCHANGED << seqWrites, seqFile >>
  /\ UNCHANGED << tr, r, c, zs, zf, i, seqFileExists, seqProgress, seqSince >>
  /\ UNCHANGED << inVars, burnVars, quantVars, setupVars, envVars, convVars, ilvVars, parVars >>

\* after the loop: flush the remaining buffer
SeqFlush ==
  /\ seqPc = "loop"
  /\ ~(c < totalSize - tr)
  /\ IF Len(buffer) > 0
     THEN \E ok \in BOOLEAN :
            /\ seqWrites' = Append(seqWrites, [len |-> Len(buffer), ok |-> ok])
            /\ seqFile' = (IF ok THEN seqFile \o buffer ELSE seqFile)
            /\ seqRet' = (IF ok THEN "nil" ELSE "failed to write final buffer")
     ELSE /\ seqRet' = "nil"
          /\ UNCHANGED << seqWrites, seqFile >>
  /\ seqPc' = "returned"
  /\ UNCHANGED << tr, r, c, zs, zf, i, seqFileExists, seqProgress, seqSince >>
  /\ UNCHANGED << inVars, burnVars, quantVars, setupVars, envVars, convVars, ilvVars, parVars >>

Convert == SeqLoopHead \/ SeqSample \/ SeqTrackEnd \/ SeqFlush

\* Convert is called once more on the same Converter, with the same image and
\* file name: os.Create empties the file, the locals start over, and the fields
\* intseq, nh, pinf, buffer and c of the Converter are as the last call left them
ConvertAgain ==
  /\ seqPc = "returned"
  /\ seqRuns < MaxRuns
  /\ seqRuns' = seqRuns + 1
  /\ seqPc' = "loop"
  /\ tr' = tr0
  /\ r' = r0
  /\ c' = 0
  /\ zs' = 0
  /\ zf' = 0
  /\ i' = 0
  /\ seqRet' = "none"
  /\ seqFile' = << >>
  /\ seqFileExists' = TRUE
  /\ seqWrites' = << >>
  /\ seqProgress' = << >>
  /\ seqSince' = 0
  /\ UNCHANGED << numCPU, setCalls >>
  /\ UNCHANGED << inVars, burnVars, quantVars, envVars, convVars, ilvVars, parVars >>

\* ------------------------------------------------------------ cancellation
\* the cancel callback starts to return true
RaiseCancelled ==
  /\ ~cancelled
  /\ cancelled' = TRUE
  /\ UNCHANGED << ctxDone, inVars, burnVars, quantVars, setupVars, convVars, seqVars, ilvVars, parVars >>

\* the context is cancelled
RaiseCtxDone ==
  /\ ~ctxDone
  /\ ctxDone' = TRUE
  /\ UNCHANGED << cancelled, inVars, burnVars, quantVars, setupVars, convVars, seqVars, ilvVars, parVars >>

\* ------------------------------------------------------------ ConvertParallel
Workers == 1..numWorkers

NoJob == [trackIndex |-> -1, tr |-> 0, r |-> 0, itr |-> 0, zs |-> 0, zf |-> 0]

\* the state when ConvertParallel has created the file and started its goroutines
ParLocalsInit ==
  /\ jobs = << >> /\ jobsClosed = FALSE
  /\ results = << >> /\ resultsClosed = FALSE
  /\ genPc = "loop"
  /\ gtr = tr0 /\ gr = r0 /\ gc = 0 /\ gzs = 0 /\ gzf = 0
  /\ trackIndex = 0
  /\ parProgress = << >>
  /\ wPc = [w \in Workers |-> "recv"]
  /\ wJob = [w \in Workers |-> NoJob]
  /\ wI = [w \in Workers |-> 0]
  /\ wData = [w \in Workers |-> << >>]
  /\ wZf = [w \in Workers |-> 0]
  /\ colPc = "recv"
  /\ trackBuffer = << >>
  /\ nextTrackToWrite = 0
  /\ parFile = << >>
  /\ parWrites = << >>
  /\ mainPc = "waitJobs"
  /\ parRet = "none"
  /\ errSeen = FALSE
  /\ writeFails = 0
  /\ gSince = 0
  /\ wSince = [w \in Workers |-> 0]
  /\ colSince = 0
  /\ parFileExists = TRUE
  /\ issued = << >>
  /\ taken = << >>
  /\ published = << >>
  /\ errTracks = {}

ParIdle ==
  /\ jobs = << >> /\ jobsClosed = FALSE
  /\ results = << >> /\ resultsClosed = FALSE
  /\ genPc = "idle"
  /\ gtr = 0 /\ gr = 0 /\ gc = 0 /\ gzs = 0 /\ gzf = 0
  /\ trackIndex = 0
  /\ parProgress = << >>
  /\ wPc = [w \in Workers |-> "idle"]
  /\ wJob = [w \in Workers |-> NoJob]
  /\ wI = [w \in Workers |-> 0]
  /\ wData = [w \in Workers |-> << >>]
  /\ wZf = [w \in Workers |-> 0]
  /\ colPc = "idle"
  /\ trackBuffer = << >>
  /\ nextTrackToWrite = 0
  /\ parFile = << >>
  /\ parWrites = << >>
  /\ mainPc = "idle"
  /\ parRet = "none"
  /\ errSeen = FALSE
  /\ writeFails = 0
  /\ gSince = 0
  /\ wSince = [w \in Workers |-> 0]
  /\ colSince = 0
  /\ parFileExists = FALSE
  /\ issued = << >>
  /\ taken = << >>
  /\ published = << >>
  /\ errTracks = {}

\* NewMultiThreadedConverter with n CPUs: at most 8 workers, channels of 2 per worker
NewMultiThreadedInit(ncpu) ==
  /\ numCPU = ncpu
  /\ setCalls = << >>
  /\ numWorkers = (IF ncpu > 8 THEN 8 ELSE ncpu)
  /\ chanCap = (IF ncpu > 8 THEN 8 ELSE ncpu) * 2

\* SetNumWorkers accepting 0 as well
SetNumWorkers_AcceptsZero(n) ==
  /\ mainPc = "idle"
  /\ Len(setCalls) < MaxSetCalls
  /\ setCalls' = Append(setCalls, n)
  /\ numWorkers' = (IF n >= 0 /\ n <= 16 THEN n ELSE numWorkers)
  /\ wPc' = [w \in 1..numWorkers' |-> "idle"]
  /\ wJob' = [w \in 1..numWorkers' |-> NoJob]
  /\ wI' = [w \in 1..numWorkers' |-> 0]
  /\ wData' = [w \in 1..numWorkers' |-> << >>]
  /\ wZf' = [w \in 1..numWorkers' |-> 0]
  /\ wSince' = [w \in 1..numWorkers' |-> 0]
  /\ UNCHANGED << numCPU, seqRuns, chanCap, jobs, jobsClosed, results, resultsClosed >>
  /\ UNCHANGED << errSeen, writeFails, gSince, colSince >>
  /\ UNCHANGED << inVars, burnVars, quantVars, envVars, convVars, seqVars, ilvVars,
                  genVars, colVars, mainVars, histVars >>

\* SetNumWorkers(n), called before a run: no worker goroutine exists yet, and
\* the per-worker state has one entry for each worker a run would start
SetNumWorkers(n) ==
  /\ mainPc = "idle"
  /\ Len(setCalls) < MaxSetCalls
  /\ setCalls' = Append(setCalls, n)
  /\ numWorkers' = (IF n > 0 /\ n <= 16 THEN n ELSE numWorkers)
  /\ wPc' = [w \in 1..numWorkers' |-> "idle"]
  /\ wJob' = [w \in 1..numWorkers' |-> NoJob]
  /\ wI' = [w \in 1..numWorkers' |-> 0]
  /\ wData' = [w \in 1..numWorkers' |-> << >>]
  /\ wZf' = [w \in 1..numWorkers' |-> 0]
  /\ wSince' = [w \in 1..numWorkers' |-> 0]
  /\ UNCHANGED << numCPU, seqRuns, chanCap, jobs, jobsClosed, results, resultsClosed >>
  /\ UNCHANGED << errSeen, writeFails, gSince, colSince >>
  /\ UNCHANGED << inVars, burnVars, quantVars, envVars, convVars, seqVars, ilvVars,
                  genVars, colVars, mainVars, histVars >>

\* ConvertParallel up to the point where the file is created and the workers,
\* the collector and the job generator are started
ConvertParallelStart ==
  /\ mainPc = "idle"
  /\ mainPc' = "waitJobs"
  /\ parFileExists' = TRUE
  /\ genPc' = "loop"
  /\ gtr' = tr0 /\ gr' = r0 /\ gc' = 0 /\ gzs' = 0 /\ gzf' = 0
  /\ trackIndex' = 0
  /\ wPc' = [w \in Workers |-> "recv"]
  /\ colPc' = "recv"
  /\ trackBuffer' = << >>
  /\ nextTrackToWrite' = 0
  /\ UNCHANGED << parProgress, wJob, wI, wData, wZf, parFile, parWrites, parRet >>
  /\ UNCHANGED << inVars, burnVars, quantVars, setupVars, envVars, convVars, seqVars,
                  ilvVars, chanVars, obsVars, histVars >>

\* --- job generator
\* the head of the generator's loop reporting the share of the budget that is left
GenLoopHead_ReportsRemaining ==
  /\ genPc = "loop"
  /\ IF ~(gc < totalSize - gtr) \/ ctxDone \/ cancelled
     THEN /\ genPc' = "done"
          /\ jobsClosed' = TRUE
          /\ UNCHANGED parProgress
     ELSE /\ genPc' = "send"
          /\ parProgress' = Append(parProgress, 100 - (100 * gc) \div totalSize)
          /\ UNCHANGED jobsClosed
  /\ UNCHANGED << numWorkers, chanCap, jobs, results, resultsClosed >>
  /\ UNCHANGED << gtr, gr, gc, gzs, gzf, trackIndex >>
  /\ UNCHANGED << inVars, burnVars, quantVars, setupVars, envVars, convVars, seqVars, ilvVars,
                  wrkVars, colVars, mainVars, obsVars, histVars >>

\* head of the generator's loop: the loop condition, both cancellation checks,
\* the progress callback; returning closes the job channel
GenLoopHead ==
  /\ genPc = "loop"
  /\ IF ~(gc < totalSize - gtr) \/ ctxDone \/ cancelled
     THEN /\ genPc' = "done"
          /\ jobsClosed' = TRUE
          /\ UNCHANGED parProgress
     ELSE /\ genPc' = "send"
          /\ parProgress' = Append(parProgress, (100 * gc) \div totalSize)
          /\ UNCHANGED jobsClosed
  /\ UNCHANGED << numWorkers, chanCap, jobs, results, resultsClosed >>
  /\ UNCHANGED << gtr, gr, gc, gzs, gzf, trackIndex >>
  /\ UNCHANGED << inVars, burnVars, quantVars, setupVars, envVars, convVars, seqVars, ilvVars,
                  wrkVars, colVars, mainVars, obsVars, histVars >>

\* the generator's send with a radius that does not advance
GenSend_KeepsRadius ==
  /\ genPc = "send"
  /\ Len(jobs) < chanCap
  /\ jobs' = Append(jobs, [trackIndex |-> trackIndex, tr |-> gtr, r |-> gr,
                           itr |-> Trunc(gtr), zs |-> gzs, zf |-> gzf])
  /\ issued' = Append(issued, [trackIndex |-> trackIndex, tr |-> gtr, r |-> gr,
                               itr |-> Trunc(gtr), zs |-> gzs, zf |-> gzf])
  /\ UNCHANGED << taken, published, errTracks >>
  /\ gc' = gc + gtr
  /\ gtr' = gtr + dtr
  /\ gr' = gr
  /\ trackIndex' = trackIndex + 1
  /\ gzs' = (IF gzs + 1 >= 17 THEN 0 ELSE gzs + 1)
  /\ genPc' = "loop"
  /\ gSince' = (IF ctxDone THEN gSince + 1 ELSE gSince)
  /\ UNCHANGED << numWorkers, chanCap, jobsClosed, results, resultsClosed >>
  /\ UNCHANGED << gzf, parProgress, errSeen, writeFails, wSince, colSince >>
  /\ UNCHANGED << inVars, burnVars, quantVars, setupVars, envVars, convVars, seqVars, ilvVars,
                  wrkVars, colVars, mainVars >>

\* select { case jobs <- job: ; case <-ctx.Done(): return }, the send branch,
\* then the rest of the loop body
GenSend ==
  /\ genPc = "send"
  /\ Len(jobs) < chanCap
  /\ jobs' = Append(jobs, [trackIndex |-> trackIndex, tr |-> gtr, r |-> gr,
                           itr |-> Trunc(gtr), zs |-> gzs, zf |-> gzf])
  /\ issued' = Append(issued, [trackIndex |-> trackIndex, tr |-> gtr, r |-> gr,
                               itr |-> Trunc(gtr), zs |-> gzs, zf |-> gzf])
  /\ UNCHANGED << taken, published, errTracks >>
  /\ gc' = gc + gtr
  /\ gtr' = gtr + dtr
  /\ gr' = gr + RadiusStep
  /\ trackIndex' = trackIndex + 1
  /\ gzs' = (IF gzs + 1 >= 17 THEN 0 ELSE gzs + 1)
  /\ genPc' = "loop"
  /\ gSince' = (IF ctxDone THEN gSince + 1 ELSE gSince)
  /\ UNCHANGED << numWorkers, chanCap, jobsClosed, results, resultsClosed >>
  /\ UNCHANGED << gzf, parProgress, errSeen, writeFails, wSince, colSince >>
  /\ UNCHANGED << inVars, burnVars, quantVars, setupVars, envVars, convVars, seqVars, ilvVars,
                  wrkVars, colVars, mainVars >>

\* the same select, the ctx.Done() branch
GenSendCancelled ==
  /\ genPc = "send"
  /\ ctxDone
  /\ genPc' = "done"
  /\ jobsClosed' = TRUE
  /\ UNCHANGED << numWorkers, chanCap, jobs, results, resultsClosed >>
  /\ UNCHANGED << gtr, gr, gc, gzs, gzf, trackIndex, parProgress >>
  /\ UNCHANGED << inVars, burnVars, quantVars, setupVars, envVars, convVars, seqVars, ilvVars,
                  wrkVars, colVars, mainVars, obsVars, histVars >>

\* --- trackWorker
\* a receive that leaves the job in the channel
WorkerRecv_Peek(w) ==
  /\ wPc[w] = "recv"
  /\ jobs # << >>
  /\ wJob' = [wJob EXCEPT ![w] = Head(jobs)]
  /\ jobs' = jobs
  /\ wI' = [wI EXCEPT ![w] = 0]
  /\ wData' = [wData EXCEPT ![w] = << >>]
  /\ wZf' = [wZf EXCEPT ![w] = Head(jobs).zf]
  /\ wPc' = [wPc EXCEPT ![w] = "check"]
  /\ UNCHANGED << numWorkers, chanCap, jobsClosed, results, resultsClosed >>
  /\ UNCHANGED << inVars, burnVars, quantVars, setupVars, envVars, convVars, seqVars, ilvVars,
                  genVars, colVars, mainVars, obsVars >>
  /\ taken' = Append(taken, Head(jobs).trackIndex)
  /\ UNCHANGED << issued, published, errTracks >>

\* select { case job, ok := <-jobs ; case <-ctx.Done() }: a job is received
WorkerRecv(w) ==
  /\ wPc[w] = "recv"
  /\ jobs # << >>
  /\ wJob' = [wJob EXCEPT ![w] = Head(jobs)]
  /\ jobs' = Tail(jobs)
  /\ wI' = [wI EXCEPT ![w] = 0]
  /\ wData' = [wData EXCEPT ![w] = << >>]
  /\ wZf' = [wZf EXCEPT ![w] = Head(jobs).zf]
  /\ wPc' = [wPc EXCEPT ![w] = "check"]
  /\ UNCHANGED << numWorkers, chanCap, jobsClosed, results, resultsClosed >>
  /\ UNCHANGED << inVars, burnVars, quantVars, setupVars, envVars, convVars, seqVars, ilvVars,
                  genVars, colVars, mainVars, obsVars >>
  /\ taken' = Append(taken, Head(jobs).trackIndex)
  /\ UNCHANGED << issued, published, errTracks >>

\* the same select: the channel is closed and drained, or ctx is done
WorkerExit(w) ==
  /\ wPc[w] = "recv"
  /\ (jobsClosed /\ jobs = << >>) \/ ctxDone
  /\ wPc' = [wPc EXCEPT ![w] = "done"]
  /\ UNCHANGED << wJob, wI, wData, wZf >>
  /\ UNCHANGED << inVars, burnVars, quantVars, setupVars, envVars, convVars, seqVars, ilvVars,
                  chanVars, genVars, colVars, mainVars, obsVars, histVars >>

\* processTrack: the loop condition and the ctx check before a sample
WorkerCheck(w) ==
  /\ wPc[w] = "check"
  /\ IF wI[w] >= wJob[w].itr
     THEN /\ wPc' = [wPc EXCEPT ![w] = "send"]
          /\ UNCHANGED << wData, errTracks >>
     ELSE IF ctxDone
     THEN /\ wPc' = [wPc EXCEPT ![w] = "sendErr"]
          /\ wData' = [wData EXCEPT ![w] = << >>]
          /\ errTracks' = errTracks \cup {wJob[w].trackIndex}
     ELSE /\ wPc' = [wPc EXCEPT ![w] = "sample"]
          /\ UNCHANGED << wData, errTracks >>
  /\ UNCHANGED << wJob, wI, wZf >>
  /\ UNCHANGED << inVars, burnVars, quantVars, setupVars, envVars, convVars, seqVars, ilvVars,
                  chanVars, genVars, colVars, mainVars, obsVars >>
  /\ UNCHANGED << issued, taken, published >>

\* processTrack: one sample, with localZf allowed to reach 5 before it wraps
WorkerSample_LateWrap(w) ==
  /\ wPc[w] = "sample"
  /\ LET job == wJob[w]
         cl == OrderedIndex(GrayAt(img, job.r, wI[w], job.itr), job.zs, wZf[w])
     IN wData' = [wData EXCEPT ![w] = Append(@, palette[cl + 1])]
  /\ wZf' = [wZf EXCEPT ![w] = IF @ + 1 > 5 THEN 0 ELSE @ + 1]
  /\ wI' = [wI EXCEPT ![w] = @ + 1]
  /\ wPc' = [wPc EXCEPT ![w] = "check"]
  /\ wSince' = [wSince EXCEPT ![w] = IF ctxDone THEN @ + 1 ELSE @]
  /\ UNCHANGED << wJob, errSeen, writeFails, gSince, colSince >>
  /\ UNCHANGED << inVars, burnVars, quantVars, setupVars, envVars, convVars, seqVars, ilvVars,
                  chanVars, genVars, colVars, mainVars >>
  /\ UNCHANGED histVars

\* processTrack: one sample
WorkerSample(w) ==
  /\ wPc[w] = "sample"
  /\ \E draw \in Draws :
       LET job == wJob[w]
           cl == Quantize(GrayAt(img, job.r, wI[w], job.itr), mixColors, job.zs,
                          wZf[w], draw)
       IN wData' = [wData EXCEPT ![w] = Append(@, palette[cl + 1])]
  /\ wZf' = [wZf EXCEPT ![w] = IF @ + 1 >= 5 THEN 0 ELSE @ + 1]
  /\ wI' = [wI EXCEPT ![w] = @ + 1]
  /\ wPc' = [wPc EXCEPT ![w] = "check"]
  /\ wSince' = [wSince EXCEPT ![w] = IF ctxDone THEN @ + 1 ELSE @]
  /\ UNCHANGED << wJob, errSeen, writeFails, gSince, colSince >>
  /\ UNCHANGED << inVars, burnVars, quantVars, setupVars, envVars, convVars, seqVars, ilvVars,
                  chanVars, genVars, colVars, mainVars >>
  /\ UNCHANGED histVars

\* select { case results <- TrackResult{...}: ; case <-ctx.Done(): return }: sent
WorkerSend(w) ==
  /\ wPc[w] \in {"send", "sendErr"}
  /\ Len(results) < chanCap
  /\ results' = Append(results, [trackIndex |-> wJob[w].trackIndex,
                                 data |-> wData[w],
                                 err |-> (wPc[w] = "sendErr")])
  /\ wPc' = [wPc EXCEPT ![w] = "recv"]
  /\ UNCHANGED << numWorkers, chanCap, jobs, jobsClosed, resultsClosed >>
  /\ UNCHANGED << wJob, wI, wData, wZf >>
  /\ UNCHANGED << inVars, burnVars, quantVars, setupVars, envVars, convVars, seqVars, ilvVars,
                  genVars, colVars, mainVars, obsVars >>
  /\ published' = (IF wJob[w].trackIndex \in DOMAIN published
                   THEN [published EXCEPT ![wJob[w].trackIndex] = @ + 1]
                   ELSE (wJob[w].trackIndex :> 1) @@ published)
  /\ UNCHANGED << issued, taken, errTracks >>

\* the same select, the ctx.Done() branch: the result is dropped
WorkerSendCancelled(w) ==
  /\ wPc[w] \in {"send", "sendErr"}
  /\ ctxDone
  /\ wPc' = [wPc EXCEPT ![w] = "done"]
  /\ UNCHANGED << wJob, wI, wData, wZf >>
  /\ UNCHANGED << inVars, burnVars, quantVars, setupVars, envVars, convVars, seqVars, ilvVars,
                  chanVars, genVars, colVars, mainVars, obsVars, histVars >>

\* --- result collector
\* a collector that puts the data of a failed result in trackBuffer as well
CollectorRecv_BuffersErr ==
  /\ colPc = "recv"
  /\ results # << >>
  /\ results' = Tail(results)
  /\ errSeen' = (errSeen \/ Head(results).err)
  /\ trackBuffer' = (Head(results).trackIndex :> Head(results).data) @@ trackBuffer
  /\ colPc' = "write"
  /\ UNCHANGED << numWorkers, chanCap, jobs, jobsClosed, resultsClosed >>
  /\ UNCHANGED << nextTrackToWrite, parFile, parWrites, writeFails, gSince, wSince, colSince >>
  /\ UNCHANGED << inVars, burnVars, quantVars, setupVars, envVars, convVars, seqVars, ilvVars,
                  genVars, wrkVars, mainVars >>
  /\ UNCHANGED histVars

\* for result := range results: one result is received; a result with an error
\* is skipped, another is put in trackBuffer
CollectorRecv ==
  /\ colPc = "recv"
  /\ results # << >>
  /\ results' = Tail(results)
  /\ IF Head(results).err
     THEN /\ errSeen' = TRUE
          /\ UNCHANGED << colPc, trackBuffer >>
     ELSE /\ trackBuffer' = (Head(results).trackIndex :> Head(results).data) @@ trackBuffer
          /\ colPc' = "write"
          /\ UNCHANGED errSeen
  /\ UNCHANGED << numWorkers, chanCap, jobs, jobsClosed, resultsClosed >>
  /\ UNCHANGED << nextTrackToWrite, parFile, parWrites, writeFails, gSince, wSince, colSince >>
  /\ UNCHANGED << inVars, burnVars, quantVars, setupVars, envVars, convVars, seqVars, ilvVars,
                  genVars, wrkVars, mainVars >>
  /\ UNCHANGED histVars

\* file.Write succeeds, or fails (at most maxFails times in a run)
WriteOutcomes == IF writeFails < maxFails THEN BOOLEAN ELSE {TRUE}

\* the collector writing whatever track it holds, in the order of arrival
CollectorWrite_Arrival ==
  /\ colPc = "write"
  /\ IF trackBuffer # << >>
     THEN \E ok \in WriteOutcomes, k \in DOMAIN trackBuffer :
            /\ parWrites' = Append(parWrites, [track |-> k, ok |-> ok])
            /\ writeFails' = (IF ok THEN writeFails ELSE writeFails + 1)
            /\ colSince' = (IF ctxDone THEN colSince + 1 ELSE colSince)
            /\ IF ok
               THEN /\ parFile' = parFile \o trackBuffer[k]
                    /\ trackBuffer' = [j \in DOMAIN trackBuffer \ {k} |-> trackBuffer[j]]
                    /\ nextTrackToWrite' = nextTrackToWrite + 1
                    /\ UNCHANGED colPc
               ELSE /\ colPc' = "recv"
                    /\ UNCHANGED << parFile, trackBuffer, nextTrackToWrite >>
     ELSE /\ colPc' = "recv"
          /\ UNCHANGED << parFile, trackBuffer, nextTrackToWrite, parWrites,
                          writeFails, colSince >>
  /\ UNCHANGED << errSeen, gSince, wSince >>
  /\ UNCHANGED << inVars, burnVars, quantVars, setupVars, envVars, convVars, seqVars, ilvVars,
                  chanVars, genVars, wrkVars, mainVars >>
  /\ UNCHANGED histVars

\* one iteration of the inner loop: write trackBuffer[nextTrackToWrite] if present
CollectorWrite ==
  /\ colPc = "write"
  /\ IF nextTrackToWrite \in DOMAIN trackBuffer
     THEN \E ok \in WriteOutcomes :
            /\ parWrites' = Append(parWrites, [track |-> nextTrackToWrite, ok |-> ok])
            /\ writeFails' = (IF ok THEN writeFails ELSE writeFails + 1)
            /\ colSince' = (IF ctxDone THEN colSince + 1 ELSE colSince)
            /\ IF ok
               THEN /\ parFile' = parFile \o trackBuffer[nextTrackToWrite]
                    /\ trackBuffer' = [k \in DOMAIN trackBuffer \ {nextTrackToWrite}
                                         |-> trackBuffer[k]]
                    /\ nextTrackToWrite' = nextTrackToWrite + 1
                    /\ UNCHANGED colPc
               ELSE /\ colPc' = "recv"
                    /\ UNCHANGED << parFile, trackBuffer, nextTrackToWrite >>
     ELSE /\ colPc' = "recv"
          /\ UNCHANGED << parFile, trackBuffer, nextTrackToWrite, parWrites,
                          writeFails, colSince >>
  /\ UNCHANGED << errSeen, gSince, wSince >>
  /\ UNCHANGED << inVars, burnVars, quantVars, setupVars, envVars, convVars, seqVars, ilvVars,
                  chanVars, genVars, wrkVars, mainVars >>
  /\ UNCHANGED histVars

\* a range loop that ends as soon as it finds results empty
CollectorExit_OnEmpty ==
  /\ colPc = "recv"
  /\ results = << >>
  /\ colPc' = "done"
  /\ UNCHANGED << trackBuffer, nextTrackToWrite, parFile, parWrites >>
  /\ UNCHANGED << inVars, burnVars, quantVars, setupVars, envVars, convVars, seqVars, ilvVars,
                  chanVars, genVars, wrkVars, mainVars, obsVars, histVars >>

\* the range loop ends: results is closed and drained
CollectorExit ==
  /\ colPc = "recv"
  /\ resultsClosed /\ results = << >>
  /\ colPc' = "done"
  /\ UNCHANGED << trackBuffer, nextTrackToWrite, parFile, parWrites >>
  /\ UNCHANGED << inVars, burnVars, quantVars, setupVars, envVars, convVars, seqVars, ilvVars,
                  chanVars, genVars, wrkVars, mainVars, obsVars, histVars >>

\* --- ConvertParallel's own goroutine
\* <-jobsDone
MainJobsDone ==
  /\ mainPc = "waitJobs"
  /\ genPc = "done"
  /\ mainPc' = "waitWorkers"
  /\ UNCHANGED << parRet, parFileExists >>
  /\ UNCHANGED << inVars, burnVars, quantVars, setupVars, envVars, convVars, seqVars, ilvVars,
                  chanVars, genVars, wrkVars, colVars, obsVars, histVars >>

\* the wait for the workers without close(mtconv.results) after it
MainWorkersDone_KeepsOpen ==
  /\ mainPc = "waitWorkers"
  /\ \A w \in Workers : wPc[w] = "done"
  /\ mainPc' = "waitResults"
  /\ UNCHANGED << parRet, parFileExists >>
  /\ UNCHANGED << numWorkers, chanCap, jobs, jobsClosed, results, resultsClosed >>
  /\ UNCHANGED << inVars, burnVars, quantVars, setupVars, envVars, convVars, seqVars, ilvVars,
                  genVars, wrkVars, colVars, obsVars, histVars >>

\* mtconv.wg.Wait(); close(mtconv.results)
MainWorkersDone ==
  /\ mainPc = "waitWorkers"
  /\ \A w \in Workers : wPc[w] = "done"
  /\ resultsClosed' = TRUE
  /\ mainPc' = "waitResults"
  /\ UNCHANGED << parRet, parFileExists >>
  /\ UNCHANGED << numWorkers, chanCap, jobs, jobsClosed, results >>
  /\ UNCHANGED << inVars, burnVars, quantVars, setupVars, envVars, convVars, seqVars, ilvVars,
                  genVars, wrkVars, colVars, obsVars, histVars >>

\* <-resultsDone; return nil
MainReturn ==
  /\ mainPc = "waitResults"
  /\ colPc = "done"
  /\ mainPc' = "returned"
  /\ parRet' = "nil"
  /\ UNCHANGED parFileExists
  /\ UNCHANGED << inVars, burnVars, quantVars, setupVars, envVars, convVars, seqVars, ilvVars,
                  chanVars, genVars, wrkVars, colVars, obsVars, histVars >>

ConvertParallel ==
  \/ GenLoopHead \/ GenSend \/ GenSendCancelled
  \/ \E w \in Workers :
       \/ WorkerRecv(w) \/ WorkerExit(w) \/ WorkerCheck(w) \/ WorkerSample(w)
       \/ WorkerSend(w) \/ WorkerSendCancelled(w)
  \/ CollectorRecv \/ CollectorWrite \/ CollectorExit
  \/ MainJobsDone \/ MainWorkersDone \/ MainReturn

\* ------------------------------------------------------------ burnImage
\* GetPresets, the float64 values in units of 1/Den (rounded down)
Presets ==
  [name \in {"verbatim-cd-rw-1", "verbatim-cd-rw-2", "eperformance-cd-rw", "tdk-cd-rw",
             "generic-dvd-r", "generic-dvd-rw", "verbatim-dvd-r", "sony-dvd-rw"} |->
     CASE name = "verbatim-cd-rw-1" -> [DiscType |-> "cd", Tr0 |-> 45903, Dtr |-> 2, R0 |-> 49]
       [] name = "verbatim-cd-rw-2" -> [DiscType |-> "cd", Tr0 |-> 45902, Dtr |-> 2, R0 |-> 49]
       [] name = "eperformance-cd-rw" -> [DiscType |-> "cd", Tr0 |-> 45872, Dtr |-> 2, R0 |-> 49]
       [] name = "tdk-cd-rw" -> [DiscType |-> "cd", Tr0 |-> 46000, Dtr |-> 2, R0 |-> 49]
       [] name = "generic-dvd-r" -> [DiscType |-> "dvd", Tr0 |-> 96000, Dtr |-> 1, R0 |-> 48]
       [] name = "generic-dvd-rw" -> [DiscType |-> "dvd", Tr0 |-> 96100, Dtr |-> 1, R0 |-> 48]
       [] name = "verbatim-dvd-r" -> [DiscType |-> "dvd", Tr0 |-> 95960, Dtr |-> 1, R0 |-> 48]
       [] OTHER -> [DiscType |-> "dvd", Tr0 |-> 96200, Dtr |-> 1, R0 |-> 48]]

GetDefaultPreset(discType) ==
  IF discType = "dvd" THEN Presets["generic-dvd-r"] ELSE Presets["verbatim-cd-rw-1"]

\* strings.ToLower on the disc types that occur
ToLower(str) ==
  CASE str = "CD" -> "cd"
    [] str = "DVD" -> "dvd"
    [] str = "BD" -> "bd"
    [] OTHER -> str

\* burnImage up to the point where the converter exists: disc type, image,
\* preset, final parameters, NewConverter / NewMultiThreadedConverter
BurnStart ==
  /\ burnPc = "start"
  /\ LET discType == ToLower(burnArgs.discType)
         named == burnArgs.preset # ""
         usePreset == named \/ burnArgs.tr0 = 0 \/ burnArgs.dtr = 0
         discPreset == IF named THEN Presets[burnArgs.preset]
                       ELSE GetDefaultPreset(discType)
     IN IF discType # "cd" /\ discType # "dvd"
        THEN /\ burnRet' = "invalid disc type"
             /\ burnPc' = "done"
             /\ UNCHANGED << tr0, dtr, r0 >>
        ELSE IF ~burnArgs.imageOk
        THEN /\ burnRet' = "failed to load image"
             /\ burnPc' = "done"
             /\ UNCHANGED << tr0, dtr, r0 >>
        ELSE IF named /\ burnArgs.preset \notin DOMAIN Presets
        THEN /\ burnRet' = "preset not found"
             /\ burnPc' = "done"
             /\ UNCHANGED << tr0, dtr, r0 >>
        ELSE IF named /\ discPreset.DiscType # discType
        THEN /\ burnRet' = "preset is for another disc type"
             /\ burnPc' = "done"
             /\ UNCHANGED << tr0, dtr, r0 >>
        ELSE /\ tr0' = (IF usePreset THEN discPreset.Tr0 ELSE burnArgs.tr0)
             /\ dtr' = (IF usePreset THEN discPreset.Dtr ELSE burnArgs.dtr)
             /\ r0' = (IF usePreset THEN discPreset.R0 ELSE burnArgs.r0)
             /\ burnPc' = "created"
             /\ UNCHANGED burnRet
  /\ UNCHANGED << burnArgs, burnMsg, burnBtn, totalSize, img, maxFails, mixColors, quantVars, setupVars >>
  /\ UNCHANGED << envVars, convVars, seqVars, ilvVars, parVars >>

\* the GUI: startConversion and runConversion up to the point where the
\* converter exists
StartConversion ==
  /\ burnPc = "start"
  /\ IF ~burnArgs.imageOk
     THEN /\ burnRet' = "No image loaded"
          /\ burnPc' = "done"
          /\ UNCHANGED << tr0, dtr, r0 >>
     ELSE IF ~burnArgs.entriesOk
     THEN /\ burnRet' = "Invalid value"
          /\ burnPc' = "done"
          /\ UNCHANGED << tr0, dtr, r0 >>
     ELSE /\ tr0' = burnArgs.tr0
          /\ dtr' = burnArgs.dtr
          /\ r0' = burnArgs.r0
          /\ burnPc' = "created"
          /\ UNCHANGED burnRet
  /\ UNCHANGED << burnArgs, burnMsg, burnBtn, totalSize, img, maxFails, mixColors, quantVars, setupVars >>
  /\ UNCHANGED << envVars, convVars, seqVars, ilvVars, parVars >>

\* the conversion is called and creates the output file
BurnConvert ==
  /\ burnPc = "created"
  /\ burnPc' = "converting"
  /\ IF burnArgs.useMultithread
     THEN /\ parFileExists' = TRUE
          /\ UNCHANGED seqFileExists
     ELSE /\ seqFileExists' = TRUE
          /\ UNCHANGED parFileExists
  /\ UNCHANGED << burnArgs, burnRet, burnMsg, burnBtn, inVars, quantVars, setupVars, envVars, convVars, ilvVars >>
  /\ UNCHANGED << seqPc, tr, r, c, zs, zf, i, seqRet, seqFile, seqWrites,
                  seqProgress, seqSince >>
  /\ UNCHANGED << chanVars, genVars, wrkVars, colVars, mainPc, parRet, obsVars,
                  histVars >>

\* convErr, and whether os.Stat finds the output file
BurnConvErr == IF burnArgs.useMultithread THEN parRet ELSE seqRet

BurnFileExists == IF burnArgs.useMultithread THEN parFileExists ELSE seqFileExists

\* burnImage after the conversion has returned: the message it prints and what
\* it returns
BurnFinish ==
  /\ burnPc = "converting"
  /\ BurnConvErr # "none"
  /\ burnPc' = "done"
  /\ IF BurnConvErr # "nil"
     THEN IF cancelled \/ ctxDone
          THEN /\ burnMsg' = "Conversion cancelled."
               /\ burnRet' = "nil"
          ELSE /\ burnMsg' = "none"
               /\ burnRet' = "conversion failed"
     ELSE IF ~BurnFileExists
          THEN /\ burnMsg' = "none"
               /\ burnRet' = "output file was not created"
          ELSE /\ burnMsg' = "Conversion completed successfully!"
               /\ burnRet' = "nil"
  /\ UNCHANGED << burnArgs, burnBtn, inVars, quantVars, setupVars, envVars, convVars, seqVars, ilvVars, parVars >>

\* the GUI: runConversion after the conversion has returned: the dialog it shows
\* and whether it enables the burn button
RunConversionFinish ==
  /\ burnPc = "converting"
  /\ BurnConvErr # "none"
  /\ burnPc' = "done"
  /\ IF BurnConvErr # "nil"
     THEN /\ burnMsg' = (IF ctxDone THEN "Conversion was cancelled."
                         ELSE "Conversion failed")
          /\ UNCHANGED burnBtn
     ELSE /\ burnBtn' = TRUE
          /\ burnMsg' = "Conversion completed successfully!"
  /\ UNCHANGED << burnArgs, burnRet, inVars, quantVars, setupVars, envVars, convVars, seqVars, ilvVars, parVars >>

\* ------------------------------------------------------------ whole runs as functions
\* processTrack without cancellation: the data of one track
RECURSIVE TrackSamples(_, _, _, _)
TrackSamples(image, job, k, zfv) ==
  IF k >= job.itr THEN << >>
  ELSE << palette[OrderedIndex(GrayAt(image, job.r, k, job.itr), job.zs, zfv) + 1] >>
       \o TrackSamples(image, job, k + 1, IF zfv + 1 >= 5 THEN 0 ELSE zfv + 1)

processTrack(image, job) == TrackSamples(image, job, 0, job.zf)

\* Convert without cancellation and with every write succeeding: the track loop,
\* then the final flush
RECURSIVE ConvertTracks(_, _, _, _, _, _)
ConvertTracks(st, cv, trv, rv, zsv, zfv) ==
  IF cv < totalSize - trv
  THEN LET t == SampleLoop(st, trv, rv, zsv, zfv, 0, Trunc(trv), TRUE, 0)
           c1 == cv + trv
           fl == FillLoop(t.st, c1, Trunc(c1), t.zf, TRUE)
       IN ConvertTracks(fl.st, c1, trv + dtr, rv + RadiusStep,
                        (IF zsv + 1 >= 17 THEN 0 ELSE zsv + 1), fl.zf)
  ELSE st

ConvertOutput ==
  LET st == ConvertTracks([intseq |-> << >>, nh |-> 28 * D - 1, pinf |-> 0,
                           buffer |-> << >>, wrote |-> << >>, err |-> FALSE],
                          0, tr0, r0, 0, 0)
  IN Written(st.wrote) \o st.buffer

\* the track loop with tr++ in the place of tr += conv.dtr
SeqNextHead_TrPlusPlus(h) ==
  [c |-> h.c + h.tr, tr |-> h.tr + Den, r |-> h.r + RadiusStep,
   zs |-> IF h.zs + 1 >= 17 THEN 0 ELSE h.zs + 1]

\* the locals c, tr, r, zs of Convert before its first track, and after one
\* more track
SeqFirstHead == [c |-> 0, tr |-> tr0, r |-> r0, zs |-> 0]

SeqNextHead(h) ==
  [c |-> h.c + h.tr, tr |-> h.tr + dtr, r |-> h.r + RadiusStep,
   zs |-> IF h.zs + 1 >= 17 THEN 0 ELSE h.zs + 1]

\* the number of tracks Convert processes when it is not cancelled
RECURSIVE SeqTrackCountFrom(_, _)
SeqTrackCountFrom(h, k) ==
  IF h.c < totalSize - h.tr THEN SeqTrackCountFrom(SeqNextHead(h), k + 1) ELSE k

SeqTrackCount == SeqTrackCountFrom(SeqFirstHead, 0)

\* the number of iterations of the sample loop, each with one call of ad, in a
\* run of Convert that is not cancelled (the fill loop, entered with
\* ic = int(c), has none)
RECURSIVE SeqSampleCountFrom(_)
SeqSampleCountFrom(h) ==
  IF h.c < totalSize - h.tr THEN Trunc(h.tr) + SeqSampleCountFrom(SeqNextHead(h)) ELSE 0

SeqSampleCount == SeqSampleCountFrom(SeqFirstHead)

\* the palette bytes Convert passes to ad in the sample loop of one track, from
\* sample k on, and the sample phase zf after the loop
RECURSIVE SampleFeed(_, _, _, _, _)
SampleFeed(trv, rv, zsv, zfv, k) ==
  IF k >= Trunc(trv) THEN [bytes |-> << >>, zf |-> zfv]
  ELSE LET cl == OrderedIndex(GrayAt(img, rv, k, Trunc(trv)), zsv, zfv)
           rest == SampleFeed(trv, rv, zsv, (IF zfv + 1 >= 5 THEN 0 ELSE zfv + 1), k + 1)
       IN [bytes |-> << palette[cl + 1] >> \o rest.bytes, zf |-> rest.zf]

\* the palette[0] bytes Convert passes to ad in the fill loop after a track
RECURSIVE FillFeed(_, _, _)
FillFeed(cc, ic, zfv) ==
  IF Trunc(cc) > ic
  THEN LET rest == FillFeed(cc, ic + 1, (IF zfv + 1 >= 4 THEN 0 ELSE zfv + 1))
       IN [bytes |-> << palette[1] >> \o rest.bytes, zf |-> rest.zf]
  ELSE [bytes |-> << >>, zf |-> zfv]

\* every byte Convert passes to ad in a run that is not cancelled
RECURSIVE ConvertFeed(_, _, _, _, _)
ConvertFeed(cv, trv, rv, zsv, zfv) ==
  IF cv < totalSize - trv
  THEN LET sm == SampleFeed(trv, rv, zsv, zfv, 0)
           c1 == cv + trv
           fl == FillFeed(c1, Trunc(c1), sm.zf)
       IN sm.bytes \o fl.bytes
            \o ConvertFeed(c1, trv + dtr, rv + RadiusStep,
                           (IF zsv + 1 >= 17 THEN 0 ELSE zsv + 1), fl.zf)
  ELSE << >>

ConvertFed == ConvertFeed(0, tr0, r0, 0, 0)

\* the track loop is not run on its own
NoWalk == [h |-> [c |-> 0, tr |-> 0, r |-> 0, zs |-> 0], k |-> 0]

WalkIdle == walk = NoWalk

\* up to n iterations of the track loop on the locals c, tr, r, zs: the loop
\* condition, then the updates at the end of the track
\* (the first half of the iterations, m the result, then the rest)
RECURSIVE TrackLoop(_, _)
TrackLoop(w, n) ==
  IF n > 1
  THEN CHOOSE v \in {TrackLoop(m, n - n \div 2) : m \in {TrackLoop(w, n \div 2)}} : TRUE
  ELSE IF n = 1 /\ w.h.c < totalSize - w.h.tr
  THEN [h |-> SeqNextHead(w.h), k |-> w.k + 1]
  ELSE w

TrackLoopSteps(n) ==
  /\ walk.h.c < totalSize - walk.h.tr
  /\ walk' = TrackLoop(walk, n)
  /\ UNCHANGED << quant, inVars, setupVars, burnVars, envVars, convVars, seqVars, ilvVars, parVars >>

\* one iteration
TrackLoopStep == TrackLoopSteps(1)

\* from a multiple of 1000 tracks on, 1000 iterations in one step
TrackLoopThousand == walk.k % 1000 = 0 /\ TrackLoopSteps(1000)

\* ------------------------------------------------------------ inputs
Images == [0..(NPix - 1) -> {0, 84, 130}]

EnvInit == cancelled = FALSE /\ ctxDone = FALSE

IlvIdle == fed = 0

\* burnImage is not running
NoArgs == [discType |-> "", tr0 |-> 0, dtr |-> 0, r0 |-> 0, preset |-> "",
           useMultithread |-> FALSE, imageOk |-> FALSE, entriesOk |-> FALSE]

BurnIdle ==
  /\ burnPc = "idle"
  /\ burnArgs = NoArgs
  /\ burnRet = "none"
  /\ burnMsg = "none"
  /\ burnBtn = FALSE

\* burnImage has built the converter from explicit parameters and has called
\* ConvertParallel
BurnConverting ==
  /\ burnPc = "converting"
  /\ burnArgs = [discType |-> "cd", tr0 |-> tr0, dtr |-> dtr, r0 |-> r0,
                 preset |-> "", useMultithread |-> TRUE, imageOk |-> TRUE,
                 entriesOk |-> TRUE]
  /\ burnRet = "none"
  /\ burnMsg = "none"
  /\ burnBtn = FALSE

\* ------------------------------------------------------------ Convert, short runs
InitSeq ==
  /\ tr0 \in {5 * Den, 6 * Den + 1}
  /\ dtr \in {0, 1, Den}
  /\ r0 \in {24 * Den + 1}
  /\ totalSize = SmallTotal * Den
  /\ img \in Images
  /\ BurnIdle
  /\ maxFails = 0
  /\ mixColors = FALSE
  /\ QuantIdle
  /\ WalkIdle
  /\ EnvInit
  /\ NewConverterInit
  /\ SeqLocalsInit
  /\ IlvIdle
  /\ NewMultiThreadedInit(1)
  /\ ParIdle

NextSeq ==
  \/ Convert
  \/ (seqPc # "returned" /\ RaiseCancelled)
  \/ (seqPc # "returned" /\ RaiseCtxDone)

SpecSeq == InitSeq /\ [][NextSeq]_vars

\* ------------------------------------------------------------ Convert, called again
\* short runs of Convert on one Converter, one after the other: enough symbols
\* for one frame or two, the last frame left incomplete
InitTwice ==
  /\ tr0 \in {5 * Den, 6 * Den + 1}
  /\ dtr \in {0, 1, Den}
  /\ r0 \in {24 * Den + 1}
  /\ totalSize = SmallTotal * Den
  /\ img \in Images
  /\ BurnIdle
  /\ maxFails = 0
  /\ mixColors = FALSE
  /\ QuantIdle
  /\ WalkIdle
  /\ EnvInit
  /\ NewConverterInit
  /\ SeqLocalsInit
  /\ IlvIdle
  /\ NewMultiThreadedInit(1)
  /\ ParIdle

NextTwice == Convert \/ ConvertAgain

SpecTwice == InitTwice /\ [][NextTwice]_vars

\* ------------------------------------------------------------ Convert, a long run
\* a run long enough to fill two sectors and to turn the ring twice
InitLong ==
  /\ tr0 = 500 * Den + 1
  /\ dtr \in {0, 1}
  /\ r0 = 24 * Den + 1
  /\ totalSize = LongTotal * Den
  /\ img = [p \in 0..(NPix - 1) |-> IF p = 0 THEN 84 ELSE IF p = 1 THEN 130 ELSE 255]
  /\ BurnIdle
  /\ maxFails = 0
  /\ mixColors = FALSE
  /\ QuantIdle
  /\ WalkIdle
  /\ EnvInit
  /\ NewConverterInit
  /\ SeqLocalsInit
  /\ IlvIdle
  /\ NewMultiThreadedInit(1)
  /\ ParIdle

NextLong == Convert \/ SeqSampleFrame

SpecLong == InitLong /\ [][NextLong]_vars

\* ------------------------------------------------------------ the interleaver alone
\* ad on each of the markers first..last in turn, up to the first failed write
RECURSIVE adMarkers(_, _, _, _)
adMarkers(st, first, last, ok) ==
  IF first > last \/ st.err THEN st
  ELSE adMarkers(ad(st, first, ok), first + 1, last, ok)

\* ad on the next n of a stream of distinct markers 1, 2, 3, ...
FeedMarkers(n) ==
  /\ seqPc = "feed"
  /\ fed + n <= MaxFeed
  /\ \E ok \in BOOLEAN :
       LET st == adMarkers(ConvState, fed + 1, fed + n, ok)
       IN /\ intseq' = st.intseq
          /\ nh' = st.nh
          /\ pinf' = st.pinf
          /\ buffer' = st.buffer
          /\ seqFile' = seqFile \o Written(st.wrote)
          /\ seqWrites' = seqWrites \o WriteLog(st.wrote)
          /\ seqPc' = (IF st.err THEN "returned" ELSE "feed")
          /\ seqRet' = (IF st.err THEN "failed to write data" ELSE seqRet)
  /\ fed' = fed + n
  /\ UNCHANGED << tr, r, c, zs, zf, i, seqFileExists, seqProgress, seqSince >>
  /\ UNCHANGED << inVars, burnVars, quantVars, setupVars, envVars, parVars >>

\* one call of ad
FeedMarker == FeedMarkers(1)

\* from a frame boundary, 24 calls of ad in one step
FeedFrame == pinf = 0 /\ FeedMarkers(24)

InitIlv ==
  /\ tr0 = Den /\ dtr = 0 /\ r0 = Den /\ totalSize = 0
  /\ img = [p \in 0..(NPix - 1) |-> 0]
  /\ BurnIdle
  /\ maxFails = 0
  /\ mixColors = FALSE
  /\ QuantIdle
  /\ WalkIdle
  /\ EnvInit
  /\ NewConverterInit
  /\ seqPc = "feed"
  /\ tr = 0 /\ r = 0 /\ c = 0 /\ zs = 0 /\ zf = 0 /\ i = 0
  /\ seqRet = "none"
  /\ seqFile = << >>
  /\ seqFileExists = TRUE
  /\ seqWrites = << >>
  /\ seqProgress = << >>
  /\ seqSince = 0
  /\ seqRuns = 0
  /\ IlvIdle
  /\ NewMultiThreadedInit(1)
  /\ ParIdle

NextIlv == FeedMarker \/ FeedFrame

SpecIlv == InitIlv /\ [][NextIlv]_vars

\* ------------------------------------------------------------ ConvertParallel runs
InitPar ==
  /\ tr0 = 2 * Den + 1
  /\ dtr = 1
  /\ r0 = 24 * Den + 1
  /\ totalSize = ParTotal * Den
  /\ img \in {[p \in 0..(NPix - 1) |-> IF p = 0 THEN 84 ELSE IF p = 1 THEN 130 ELSE 7]}
  /\ BurnConverting
  /\ maxFails = MaxWriteFails
  /\ mixColors = FALSE
  /\ QuantIdle
  /\ WalkIdle
  /\ EnvInit
  /\ NewConverterInit
  /\ SeqIdle
  /\ IlvIdle
  /\ \E ncpu \in {1, 2} : NewMultiThreadedInit(ncpu)
  /\ ParLocalsInit

NextPar ==
  \/ ConvertParallel
  \/ BurnFinish
  \/ (mainPc # "returned" /\ RaiseCancelled)
  \/ (mainPc # "returned" /\ RaiseCtxDone)

SpecPar == InitPar /\ [][NextPar]_vars

\* ------------------------------------------------------------ ConvertParallel, scheduled
\* tracks of one sample, no failing write; one worker and as many tracks as fit
\* the budget, or two workers and one track fewer
InitParFair ==
  /\ tr0 = Den
  /\ dtr = 0
  /\ r0 = 24 * Den + 1
  /\ img \in {[p \in 0..(NPix - 1) |-> IF p = 0 THEN 84 ELSE IF p = 1 THEN 130 ELSE 7]}
  /\ BurnConverting
  /\ maxFails = 0
  /\ mixColors = FALSE
  /\ QuantIdle
  /\ WalkIdle
  /\ EnvInit
  /\ NewConverterInit
  /\ SeqIdle
  /\ IlvIdle
  /\ \E ncpu \in {1, 2} :
       /\ NewMultiThreadedInit(ncpu)
       /\ totalSize = (LiveTotal - (ncpu - 1)) * Den
  /\ ParLocalsInit

\* the runs under a scheduler that does not stop every goroutine for good: as
\* long as some goroutine of ConvertParallel can take a step, one is taken
SpecParFair == InitParFair /\ [][NextPar]_vars /\ WF_vars(ConvertParallel)

\* ------------------------------------------------------------ ConvertParallel, many tracks
\* short tracks, no failing write: two workers and more tracks of one sample
\* than the two channels and the workers can hold, or one worker and growing
\* tracks, enough of them for the ring phase zs to wrap
InitMany ==
  /\ tr0 = Den
  /\ r0 = 24 * Den + 1
  /\ \E ncpu \in {1, 2} :
       /\ NewMultiThreadedInit(ncpu)
       /\ dtr = (IF ncpu = 1 THEN 1 ELSE 0)
       /\ totalSize = (IF ncpu = 1 THEN DeepTotal ELSE ManyTotal) * Den
  /\ img \in {[p \in 0..(NPix - 1) |-> IF p = 0 THEN 84 ELSE IF p = 1 THEN 130 ELSE 7]}
  /\ BurnConverting
  /\ maxFails = 0
  /\ mixColors = FALSE
  /\ QuantIdle
  /\ WalkIdle
  /\ EnvInit
  /\ NewConverterInit
  /\ SeqIdle
  /\ IlvIdle
  /\ ParLocalsInit

\* the steps of ConvertParallel under a context that is never cancelled
ConvertParallelLive ==
  \/ GenLoopHead \/ GenSend
  \/ \E w \in Workers :
       \/ WorkerRecv(w) \/ WorkerExit(w) \/ WorkerCheck(w) \/ WorkerSample(w)
       \/ WorkerSend(w)
  \/ CollectorRecv \/ CollectorWrite \/ CollectorExit
  \/ MainJobsDone \/ MainWorkersDone \/ MainReturn

NextMany ==
  \/ ConvertParallelLive

SpecMany == InitMany /\ [][NextMany]_vars

\* ------------------------------------------------------------ both drivers, one input
\* the same parameters and image given to Convert and, once it has returned, to
\* ConvertParallel with one worker: growing tracks, enough of them for the ring
\* phase to wrap, and a budget of more than 100 times the first tracks
InitBoth ==
  /\ tr0 = Den
  /\ dtr = 1
  /\ r0 = 24 * Den + 1
  /\ totalSize = DeepTotal * Den
  /\ img \in {[p \in 0..(NPix - 1) |-> IF p = 0 THEN 84 ELSE IF p = 1 THEN 130 ELSE 7],
              [p \in 0..(NPix - 1) |-> 130],
              [p \in 0..(NPix - 1) |-> 84]}
  /\ BurnIdle
  /\ maxFails = 0
  /\ mixColors = FALSE
  /\ QuantIdle
  /\ WalkIdle
  /\ EnvInit
  /\ NewConverterInit
  /\ SeqLocalsInit
  /\ IlvIdle
  /\ NewMultiThreadedInit(1)
  /\ ParLocalsInit

NextBoth ==
  \/ Convert
  \/ (seqPc = "returned" /\ ConvertParallelLive)

SpecBoth == InitBoth /\ [][NextBoth]_vars

\* ------------------------------------------------------------ both drivers, to the edge
\* tracks of 1.5 symbols, the same or growing by half a symbol, given to Convert
\* and then to ConvertParallel with one worker
InitEdge ==
  /\ tr0 = Den + 1
  /\ dtr \in {0, 1}
  /\ r0 = 24 * Den + 1
  /\ totalSize = EdgeTotal * Den
  /\ img = [p \in 0..(NPix - 1) |-> IF p = 0 THEN 84 ELSE IF p = 1 THEN 130 ELSE 7]
  /\ BurnIdle
  /\ maxFails = 0
  /\ mixColors = FALSE
  /\ QuantIdle
  /\ WalkIdle
  /\ EnvInit
  /\ NewConverterInit
  /\ SeqLocalsInit
  /\ IlvIdle
  /\ NewMultiThreadedInit(1)
  /\ ParLocalsInit

SpecEdge == InitEdge /\ [][NextBoth]_vars

\* ------------------------------------------------------------ one sample on its own
\* every luminance; in ordered mode every ring phase and sample phase, in random
\* mode every draw
InitQuant ==
  /\ quant \in [gray : 0..255, mix : {FALSE}, zs : 0..16, zf : 0..4, draw : {0},
                 cl : {-1}]
               \cup [gray : 0..255, mix : {TRUE}, zs : {0}, zf : {0}, draw : 0..84,
                      cl : {-1}]
  /\ tr0 = Den /\ dtr = 0 /\ r0 = Den /\ totalSize = 0
  /\ img = [p \in 0..(NPix - 1) |-> 0]
  /\ maxFails = 0
  /\ mixColors = FALSE
  /\ WalkIdle
  /\ BurnIdle
  /\ EnvInit
  /\ NewConverterInit
  /\ SeqIdle
  /\ IlvIdle
  /\ NewMultiThreadedInit(1)
  /\ ParIdle

NextQuant == QuantizeSample

SpecQuant == InitQuant /\ [][NextQuant]_vars

\* ------------------------------------------------------------ the track loop of a CD
\* tr0 = 1000, dtr = 0, r0 = 24.5 and the budget of a CD
InitTracks ==
  /\ tr0 = 1000 * Den
  /\ dtr = 0
  /\ r0 = 24 * Den + 1
  /\ totalSize = CDTotalSize * Den
  /\ img = [p \in 0..(NPix - 1) |-> 130]
  /\ walk = [h |-> SeqFirstHead, k |-> 0]
  /\ QuantIdle
  /\ maxFails = 0
  /\ mixColors = FALSE
  /\ BurnIdle
  /\ EnvInit
  /\ NewConverterInit
  /\ SeqIdle
  /\ IlvIdle
  /\ NewMultiThreadedInit(1)
  /\ ParIdle

NextTracks == TrackLoopStep \/ TrackLoopThousand

SpecTracks == InitTracks /\ [][NextTracks]_vars

\* ------------------------------------------------------------ configuring the workers
\* a MultiThreadedConverter just built, on a machine of 1..MaxCPU logical CPUs
InitWorkers ==
  /\ tr0 = 2 * Den + 1
  /\ dtr = 1
  /\ r0 = 24 * Den + 1
  /\ totalSize = ParTotal * Den
  /\ img = [p \in 0..(NPix - 1) |-> 130]
  /\ BurnIdle
  /\ maxFails = 0
  /\ mixColors = FALSE
  /\ QuantIdle
  /\ WalkIdle
  /\ EnvInit
  /\ NewConverterInit
  /\ SeqIdle
  /\ IlvIdle
  /\ \E ncpu \in 1..MaxCPU : NewMultiThreadedInit(ncpu)
  /\ ParIdle

NextWorkers ==
  \/ \E n \in -1..17 : SetNumWorkers(n)
  \/ ConvertParallelStart

SpecWorkers == InitWorkers /\ [][NextWorkers]_vars

\* ------------------------------------------------------------ a conversion in the GUI
\* runConversion has built the converter from the entries of the form and has
\* called Convert or ConvertParallel; the Cancel button cancels the context
GuiConverting(parallel) ==
  /\ burnPc = "converting"
  /\ burnArgs = [discType |-> "cd", tr0 |-> tr0, dtr |-> dtr, r0 |-> r0,
                 preset |-> "", useMultithread |-> parallel, imageOk |-> TRUE,
                 entriesOk |-> TRUE]
  /\ burnRet = "none"
  /\ burnMsg = "none"
  /\ burnBtn = FALSE

InitGui ==
  /\ tr0 = 2 * Den + 1
  /\ dtr = 1
  /\ r0 = 24 * Den + 1
  /\ totalSize = ParTotal * Den
  /\ img = [p \in 0..(NPix - 1) |-> IF p = 0 THEN 84 ELSE IF p = 1 THEN 130 ELSE 7]
  /\ maxFails = 0
  /\ mixColors = FALSE
  /\ QuantIdle
  /\ WalkIdle
  /\ EnvInit
  /\ NewConverterInit
  /\ IlvIdle
  /\ \E ncpu \in {1, 2} : NewMultiThreadedInit(ncpu)
  /\ \E parallel \in BOOLEAN :
       /\ GuiConverting(parallel)
       /\ IF parallel THEN SeqIdle /\ ParLocalsInit ELSE SeqLocalsInit /\ ParIdle

\* the Cancel button is tapped
CancelTapped == burnPc = "converting" /\ RaiseCtxDone

NextGui ==
  \/ Convert
  \/ ConvertParallel
  \/ CancelTapped
  \/ RunConversionFinish

SpecGui == InitGui /\ [][NextGui]_vars

\* ------------------------------------------------------------ starting a conversion
BurnInputs ==
  [discType : {"cd", "DVD", "bd"},
   tr0 : {-5 * Den, 0, 5 * Den},
   dtr : {-1, 0, 1},
   r0 : {-(24 * Den + 1), 0, 24 * Den + 1},
   preset : {"", "verbatim-cd-rw-1", "generic-dvd-r", "no-such-preset"},
   useMultithread : BOOLEAN,
   imageOk : BOOLEAN,
   entriesOk : BOOLEAN]

\* no converter exists yet
InitBurn ==
  /\ burnPc = "start"
  /\ burnArgs \in BurnInputs
  /\ burnRet = "none"
  /\ burnMsg = "none"
  /\ burnBtn = FALSE
  /\ tr0 = 0 /\ dtr = 0 /\ r0 = 0
  /\ totalSize = SmallTotal * Den
  /\ img = [p \in 0..(NPix - 1) |-> 0]
  /\ maxFails = 0
  /\ mixColors = FALSE
  /\ QuantIdle
  /\ WalkIdle
  /\ EnvInit
  /\ NewConverterInit
  /\ SeqIdle
  /\ IlvIdle
  /\ NewMultiThreadedInit(1)
  /\ ParIdle

NextBurn == BurnStart \/ StartConversion \/ BurnConvert

SpecBurn == InitBurn /\ [][NextBurn]_vars

\* ============================================================ claims
\* the job the generator issues for track k, and the tracks 0..n-1 in a row
JobOf(k) == [trackIndex |-> k, tr |-> tr0 + k * dtr, r |-> r0 + k * RadiusStep,
             itr |-> Trunc(tr0 + k * dtr), zs |-> k % 17, zf |-> 0]

RECURSIVE ConcatTracks(_)
ConcatTracks(n) ==
  IF n <= 0 THEN << >> ELSE ConcatTracks(n - 1) \o processTrack(img, JobOf(n - 1))

OkWrite(e) == e.ok
OkWrites == SelectSeq(parWrites, OkWrite)

\* the file a completed Convert leaves is the one ConvertOutput computes
SeqAgrees == (seqRet = "nil" /\ seqFileExists) => seqFile = ConvertOutput

\* C1: in ConvertParallel, whatever the order in which results arrive, the tracks
\* are written in the order 0, 1, 2, ... with none skipped and none written twice,
\* and (no write having failed) the file holds exactly the data of the tracks
\* 0..nextTrackToWrite-1 in that order.
C1_OrderedOutput ==
  /\ Len(OkWrites) = nextTrackToWrite
  /\ \A j \in 1..Len(OkWrites) : OkWrites[j].track = j - 1
  /\ (writeFails = 0 => parFile = ConcatTracks(nextTrackToWrite))

\* track 0 is written, track 2 arrived before track 1 and is held back
C1_Witness ==
  /\ nextTrackToWrite = 1
  /\ parFile # << >>
  /\ DOMAIN trackBuffer = {2}
  /\ writeFails = 0

\* C2: when the collector received a result carrying an error, ConvertParallel
\* returns an error, never nil.
C2_WorkerErrorReturned == (mainPc = "returned" /\ errSeen) => parRet # "nil"

\* C3: a completed, uncancelled ConvertParallel wrote the bytes that Convert
\* writes for the same image and parameters.
C3_SameOutput ==
  (mainPc = "returned" /\ ~cancelled /\ ~ctxDone /\ writeFails = 0)
    => parFile = ConvertOutput

\* C4: a ConvertParallel that stopped on cancellation (the generator left its
\* loop while the loop condition still held) does not return what a complete
\* run returns.
C4_CancelledIsNamed ==
  (mainPc = "returned" /\ gc < totalSize - gtr) => parRet # "nil"

\* C5: after a failed write of the collector ConvertParallel returns an error and
\* no further write is tried.
C5_WriteFailureAborts ==
  /\ (mainPc = "returned" /\ writeFails > 0) => parRet # "nil"
  /\ \A j \in 1..Len(parWrites) : ~parWrites[j].ok => j = Len(parWrites)

\* C6: once ctx is cancelled the generator sends at most one more job, a worker
\* computes at most one more sample and the collector writes at most one more
\* track.
C6_OneUnitAfterCancel ==
  /\ gSince <= 1
  /\ \A w \in Workers : wSince[w] <= 1
  /\ colSince <= 1

CancelOutcomes == {"conversion cancelled", "context canceled"}

\* C7: Convert polls cancellation at the head of every track, the cancel callback
\* first and the context second; a track starts only when neither is set; when one
\* is set Convert removes the output file and returns the cancellation error
\* without another progress callback, sample or write; nothing happens after it
\* has returned; and at most one track's samples are processed after cancellation
\* was raised.
C7_SeqCancellation ==
  /\ [](/\ seqSince <= Trunc(tr)
        /\ (seqRet \in CancelOutcomes => seqPc = "returned" /\ ~seqFileExists))
  /\ [][/\ (seqPc = "loop" /\ seqPc' = "track") => (~cancelled /\ ~ctxDone)
        /\ (seqPc = "loop" /\ seqPc' = "returned" /\ c < totalSize - tr)
             => /\ cancelled \/ ctxDone
                /\ seqRet' = (IF cancelled THEN "conversion cancelled"
                              ELSE "context canceled")
                /\ ~seqFileExists'
                /\ UNCHANGED << seqProgress, seqWrites, convVars >>
        /\ seqPc = "returned" => UNCHANGED << seqVars, convVars >>]_vars

\* cancelled through the context in the middle of a later track
C7_Witness ==
  /\ seqRet = "context canceled"
  /\ seqSince > 0
  /\ Len(seqProgress) >= 2
  /\ ~seqFileExists

\* the delay table taken apart: the slot within a frame and the number of frames
\* back that cursor position p writes to, and the cursor position of a slot
DelaySlot(p) == Delay(p) % 24
DelayFrames(p) == (DelaySlot(p) - Delay(p)) \div 24
CursorOfSlot(s) == CHOOSE p \in 0..23 : DelaySlot(p) = s

\* de-interleaving: the marker at position o of the output stream (0 where the
\* ring has not been written yet); markers are numbered from 1 in feeding order
Deinterleave(o) ==
  LET p == CursorOfSlot(o % 24)
      f == (o \div 24) - (Frames - 1 - DelayFrames(p))
  IN IF f >= 0 THEN 24 * f + p + 1 ELSE 0

\* interleaving: the output position (from 0) of marker m
OutPos(m) ==
  LET p == (m - 1) % 24
  IN 24 * ((m - 1) \div 24 + Frames - 1 - DelayFrames(p)) + DelaySlot(p)

\* the bytes passed to bw so far: the file, then the sector buffer
StreamLen == Len(seqFile) + Len(buffer)
StreamAt(o) ==
  IF o < Len(seqFile) THEN seqFile[o + 1] ELSE buffer[o - Len(seqFile) + 1]

\* C8: fed with distinct markers, the slot ad is about to write never holds a
\* marker that has not been emitted yet, and every byte it emits is the one the inverse of the delay table
\* names for that output position (so a marker is emitted at one position only,
\* fixed by its index, at most 108 frames after its own).
C8_Deinterleaves ==
  /\ LET held == SlotAt(intseq, n2m(nh, Delay(pinf)))
     IN held = 0 \/ (OutPos(held) < StreamLen /\ StreamAt(OutPos(held)) = held)
  /\ \A o \in (IF StreamLen > 24 THEN StreamLen - 24 ELSE 0)..(StreamLen - 1) :
       StreamAt(o) = Deinterleave(o)

\* the ring has turned twice and the last byte emitted is a marker
C8_Witness ==
  /\ fed >= 2 * RingSize
  /\ StreamLen >= 2 * SectorSize
  /\ StreamAt(StreamLen - 1) > RingSize

\* C9: pinf stays in 0..23 and nh in 0..111, and the index n2m computes for the
\* next write and for each of the 24 reads is in 0..2687.
C9_IndexRange ==
  /\ pinf \in 0..23
  /\ nh \in 0..(Frames - 1)
  /\ n2m(nh, Delay(pinf)) \in 0..(RingSize - 1)
  /\ \A n \in 0..23 : n2m(nh, n) \in 0..(RingSize - 1)
  /\ DOMAIN intseq \subseteq 0..(Frames - 1)

\* a write that wraps below 0, after the ring has turned once
C9_Witness ==
  /\ fed > RingSize
  /\ nh * 24 + Delay(pinf) < 0
  /\ SlotAt(intseq, n2m(nh, Delay(pinf))) > 0

SectorWrite == [len |-> SectorSize, ok |-> TRUE]

\* C10 as stated: the fill is in 0..2351 between operations, every write but the
\* last is a full sector and every sector write resets the fill.
C10_Original ==
  /\ Len(buffer) \in 0..(SectorSize - 1)
  /\ \A k \in 1..(Len(seqWrites) - 1) : seqWrites[k].len = SectorSize
  /\ seqPc # "returned" => Len(seqFile) = SectorSize * Len(seqWrites)

\* C10 amended: while no write has failed the fill is in 0..2351; a write is
\* issued exactly when the fill reaches 2352, carries those 2352 bytes and, if it
\* succeeds, resets the fill; a failed sector write leaves the fill at 2352 and
\* ends the run; on normal completion the residue is written once, unpadded, and
\* only if it is not empty.
C10_SectorBuffer ==
  /\ seqRet # "failed to write data" => Len(buffer) \in 0..(SectorSize - 1)
  /\ seqRet = "failed to write data"
       => /\ Len(buffer) = SectorSize
          /\ seqPc = "returned"
          /\ seqWrites[Len(seqWrites)] = [len |-> SectorSize, ok |-> FALSE]
  /\ \A k \in 1..(Len(seqWrites) - 1) : seqWrites[k] = SectorWrite
  /\ seqPc # "returned"
       => /\ \A k \in 1..Len(seqWrites) : seqWrites[k] = SectorWrite
          /\ Len(seqFile) = SectorSize * Len(seqWrites)
  /\ seqRet = "nil"
       => IF Len(buffer) > 0
          THEN /\ seqWrites # << >>
               /\ seqWrites[Len(seqWrites)] = [len |-> Len(buffer), ok |-> TRUE]
               /\ Len(seqFile) = SectorSize * (Len(seqWrites) - 1) + Len(buffer)
          ELSE /\ \A k \in 1..Len(seqWrites) : seqWrites[k] = SectorWrite
               /\ Len(seqFile) = SectorSize * Len(seqWrites)

\* a completed run that wrote two full sectors and then a shorter residue
C10_Witness ==
  /\ seqRet = "nil"
  /\ Len(seqWrites) = 3
  /\ seqWrites[3].len \in 1..(SectorSize - 1)
  /\ Len(seqFile) = 2 * SectorSize + Len(buffer)

\* C11: a completed, uncancelled ConvertParallel wrote, track after track, the
\* palette bytes that Convert passes to its interleaver for the same image and
\* parameters (the same ring phase and sample phase for every sample).
C11_SamePhases ==
  (mainPc = "returned" /\ ~cancelled /\ ~ctxDone /\ writeFails = 0)
    => parFile = ConvertFed

\* the locals tr, r, zs of Convert in the track that has the parameters of job j
JobHead(j) == [c |-> 0, tr |-> j.tr, r |-> j.r, zs |-> j.zs]

\* C12: the jobs sent so far have the track indices 0, 1, 2, ...; job 0 has the
\* sample count, radius and ring phase of the first track of Convert and every
\* later job those that Convert derives from the track before; when
\* the generator has ended without cancellation it has sent as many jobs as
\* Convert processes tracks.
C12_JobsReplayConvert ==
  /\ Len(issued) = trackIndex
  /\ \A k \in 1..Len(issued) :
       LET h == IF k = 1 THEN SeqFirstHead ELSE SeqNextHead(JobHead(issued[k - 1]))
       IN /\ issued[k].trackIndex = k - 1
          /\ issued[k].tr = h.tr
          /\ issued[k].itr = Trunc(h.tr)
          /\ issued[k].r = h.r
          /\ issued[k].zs = h.zs
  /\ Len(issued) <= SeqTrackCount
  /\ (genPc = "done" /\ ~cancelled /\ ~ctxDone) => Len(issued) = SeqTrackCount

\* the generator has ended after more than 17 jobs: the ring phase has wrapped
C12_Witness ==
  /\ genPc = "done"
  /\ Len(issued) > 17
  /\ issued[18].zs = 0
  /\ issued[17].zs = 16

\* the track indices of a sequence of jobs
IndicesOf(js) == [k \in 1..Len(js) |-> js[k].trackIndex]

\* the workers that hold a job they have not finished with
Busy == {w \in Workers : wPc[w] \in {"check", "sample", "send", "sendErr"}}

\* what holds of jobs and results whether or not the run is cancelled: the jobs
\* are received in the order sent, each by one worker, and a result is sent only
\* for a job received, once
AtMostOnce ==
  /\ Len(taken) <= Len(issued)
  /\ taken = SubSeq(IndicesOf(issued), 1, Len(taken))
  /\ IndicesOf(jobs) = SubSeq(IndicesOf(issued), Len(taken) + 1, Len(issued))
  /\ \A k \in 1..Len(taken) : taken[k] = k - 1
  /\ \A v, w \in Busy : wJob[v].trackIndex = wJob[w].trackIndex => v = w
  /\ \A k \in DOMAIN published :
       /\ published[k] = 1
       /\ \E n \in 1..Len(taken) : taken[n] = k

\* C13 as stated: in addition, when ConvertParallel has returned every job sent
\* was received by a worker, and without cancellation every job received has
\* its result.
C13_Original ==
  /\ AtMostOnce
  /\ mainPc = "returned" => Len(taken) = Len(issued)
  /\ (mainPc = "returned" /\ ~cancelled /\ ~ctxDone)
       => \A k \in 1..Len(taken) : taken[k] \in DOMAIN published

\* C13 amended: a job is received by at most one worker and has at most one
\* result; when ConvertParallel has returned and the context was not cancelled,
\* every job sent was received, by one worker, and has one result.
C13_ConsumedOnce ==
  /\ AtMostOnce
  /\ (mainPc = "returned" /\ ~ctxDone)
       => /\ Len(taken) = Len(issued)
          /\ \A k \in 1..Len(taken) : taken[k] \in DOMAIN published

\* a cancelled run has returned: one job was never received, one was received
\* and its result dropped, one has its result
C13_Witness ==
  /\ mainPc = "returned"
  /\ ctxDone
  /\ Len(issued) = 3
  /\ taken = << 0, 1 >>
  /\ DOMAIN published = {0}

\* the most jobs that can be in flight: in the job channel, with the workers, in
\* the result channel
InFlight == chanCap + numWorkers + chanCap

\* C14: trackBuffer never holds more tracks than jobs can be in flight.
C14_BoundedBuffer == Cardinality(DOMAIN trackBuffer) <= InFlight

\* C15: when processTrack returned an error for track k, no write of a track
\* k or later is ever tried, before or after the error, and the file holds only
\* whole tracks below k.
C15_NothingPastError ==
  \A k \in errTracks :
    /\ nextTrackToWrite <= k
    /\ \A j \in 1..Len(parWrites) : parWrites[j].track < k
    /\ \E n \in 0..k : parFile = ConcatTracks(n)

\* the run has returned; track 1 failed and its error reached the collector,
\* track 0 is in the file and track 2, computed in time, is still in trackBuffer
C15_Witness ==
  /\ mainPc = "returned"
  /\ errSeen
  /\ errTracks = {1}
  /\ nextTrackToWrite = 1
  /\ parFile # << >>
  /\ 2 \in DOMAIN trackBuffer

\* C16: when Convert has returned, either it returned nil or no output file is
\* left.
C16_AllOrNothing == seqPc = "returned" => (seqRet = "nil" \/ ~seqFileExists)

WriteFailures == {"failed to write data", "failed to write final buffer"}

\* C17: a failed write is the last write Convert tries; Convert has then
\* returned, with the error that names the failed write; the step of the failed
\* write tries that one write and adds nothing to the file; and after Convert
\* has returned no sample is processed and nothing is written.
C17_WriteFailureEndsRun ==
  /\ [](/\ \A k \in 1..Len(seqWrites) : ~seqWrites[k].ok => k = Len(seqWrites)
        /\ seqRet \in WriteFailures
             <=> (seqWrites # << >> /\ ~seqWrites[Len(seqWrites)].ok)
        /\ seqRet \in WriteFailures => seqPc = "returned"
        /\ seqRet = "failed to write final buffer" => ~(c < totalSize - tr))
  /\ [][/\ (seqRet = "none" /\ seqRet' \in WriteFailures)
             => /\ Len(seqWrites') = Len(seqWrites) + 1
                /\ seqFile' = seqFile
        /\ seqPc = "returned" => UNCHANGED << seqVars, convVars >>]_vars

\* the second sector write failed after the first sector reached the file
C17_Witness ==
  /\ seqRet = "failed to write data"
  /\ Len(seqWrites) = 2
  /\ seqWrites[1].ok
  /\ Len(seqFile) = SectorSize
  /\ i < Trunc(tr)

\* C18: when burnImage has finished after a parallel conversion that the signal
\* handler cancelled before every track was written, it has reported the run as
\* cancelled and no output file is left.
C18_BurnCleansUp ==
  (burnPc = "done" /\ cancelled /\ ctxDone /\ nextTrackToWrite < SeqTrackCount)
    => (burnMsg = "Conversion cancelled." /\ ~parFileExists)

\* the symbols Convert has passed to ad, while no write has failed: those of the
\* frames completed are in the file or the sector buffer, pinf more are in the
\* ring
SymbolsFed == Len(seqFile) + Len(buffer) + pinf

\* C19: between two tracks of Convert the number of symbols passed to the
\* interleaver is the integer part of the accumulated sample count c.
C19_FedMatchesAccumulated == seqPc = "loop" => SymbolsFed = Trunc(c)

\* C20: whenever burnImage or the GUI has built a converter, or gone on to
\* create the output file, tr0, dtr and r0 of the converter are positive.
C20_RejectsNonPositive ==
  burnPc \in {"created", "converting"} => (tr0 > 0 /\ dtr > 0 /\ r0 > 0)

\* C21: the progress callback is never called twice in a row with the same
\* percentage, neither by Convert nor by the job generator of ConvertParallel.
C21_ProgressOnlyOnChange ==
  /\ \A k \in 2..Len(seqProgress) : seqProgress[k] # seqProgress[k - 1]
  /\ \A k \in 2..Len(parProgress) : parProgress[k] # parProgress[k - 1]

\* C22: in Convert and in the job generator the callback is called at the head of
\* a track and nowhere else, with floor(100 * c / totalSize) for the c of that
\* moment; the values passed never decrease; and the generator passes the values
\* Convert passes for the same input, in the same order.
C22_ProgressMonotone ==
  /\ [](/\ \A k \in 2..Len(seqProgress) : seqProgress[k - 1] <= seqProgress[k]
        /\ \A k \in 2..Len(parProgress) : parProgress[k - 1] <= parProgress[k]
        /\ seqPc = "track" => seqProgress[Len(seqProgress)] = (100 * c) \div totalSize
        /\ genPc = "send" => parProgress[Len(parProgress)] = (100 * gc) \div totalSize
        /\ seqPc = "returned"
             => /\ Len(parProgress) <= Len(seqProgress)
                /\ parProgress = SubSeq(seqProgress, 1, Len(parProgress)))
  /\ [][/\ seqProgress' # seqProgress
             => /\ seqPc = "loop" /\ seqPc' = "track"
                /\ seqProgress' = Append(seqProgress, (100 * c) \div totalSize)
        /\ parProgress' # parProgress
             => /\ genPc = "loop" /\ genPc' = "send"
                /\ parProgress' = Append(parProgress, (100 * gc) \div totalSize)]_vars

\* both drivers are through more than 17 tracks, with the same values reported,
\* the first one twice
C22_Witness ==
  /\ seqPc = "returned"
  /\ genPc = "done"
  /\ Len(seqProgress) > 17
  /\ parProgress = seqProgress
  /\ seqProgress[1] = seqProgress[2]
  /\ seqProgress[Len(seqProgress)] > seqProgress[1]

\* the symbol index the ordered mode is to choose for a luminance
Chosen(gray, ringPhase, samplePhase) ==
  LET low == gray \div 85
      high == IF low + 1 > 3 THEN 3 ELSE low + 1
      remainder == gray % 85
  IN IF remainder > ringPhase * 5 + samplePhase \/ remainder = 84 THEN high ELSE low

\* C23: in both drivers the ring phase is in 0..16 and the sample phase in 0..4,
\* so the threshold ringPhase * 5 + samplePhase is in 0..84; the ring phase
\* changes only by one step modulo 17, from one track to the next, and the sample
\* phase by one step modulo 5 with every sample; and the symbol a sample step
\* emits (into the ring in Convert, onto the track data in a worker) is the high
\* one iff remainder > threshold or remainder = 84.
C23_OrderedThreshold ==
  /\ [](/\ zs \in 0..16 /\ zf \in 0..4 /\ gzs \in 0..16
        /\ zs * 5 + zf \in 0..84
        /\ \A k \in 1..Len(jobs) : jobs[k].zs \in 0..16 /\ jobs[k].zf \in 0..4
        /\ \A w \in Workers :
             /\ wJob[w].zs \in 0..16 /\ wZf[w] \in 0..4
             /\ wJob[w].zs * 5 + wZf[w] \in 0..84)
  /\ [][/\ zs' # zs => (seqPc = "track" /\ seqPc' = "loop" /\ zs' = (zs + 1) % 17)
        /\ gzs' # gzs => (trackIndex' = trackIndex + 1 /\ gzs' = (gzs + 1) % 17)
        /\ (seqPc = "track" /\ i' = i + 1)
             => /\ zf' = (zf + 1) % 5
                /\ SlotAt(intseq', n2m(nh, Delay(pinf)))
                     = palette[Chosen(GrayAt(img, r, i, Trunc(tr)), zs, zf) + 1]
        /\ \A w \in Workers :
             wI'[w] = wI[w] + 1
               => /\ wZf'[w] = (wZf[w] + 1) % 5
                  /\ wData'[w] = Append(wData[w],
                        palette[Chosen(GrayAt(img, wJob[w].r, wI[w], wJob[w].itr),
                                       wJob[w].zs, wZf[w]) + 1])]_vars

\* Convert is through; a worker is about to compute a sample of the 17th track at
\* ring phase 16 and sample phase 4, the threshold 84
C23_Witness ==
  /\ seqPc = "returned"
  /\ Len(seqProgress) > 17
  /\ wPc[1] = "sample"
  /\ wJob[1].zs = 16
  /\ wZf[1] = 4

\* C24: a sample whose luminance is 0, 85, 170 or 255 is given the index
\* gray div 85 and the palette byte of that index, in ordered mode at every ring
\* phase and sample phase and in random mode at every draw.
C24_PaletteValuesFixed ==
  (quant.cl # -1 /\ quant.gray % 85 = 0)
    => /\ quant.cl = quant.gray \div 85
       /\ palette[quant.cl + 1] = << 16, 33, 40, 170 >>[quant.gray \div 85 + 1]

\* luminance 170 quantized in ordered mode at threshold 0, where remainder and
\* threshold are equal
C24_Witness ==
  /\ quant.gray = 170 /\ ~quant.mix /\ quant.zs = 0 /\ quant.zf = 0
  /\ quant.cl = 2

\* C25: for every luminance 0..255, ring phase, sample phase and draw the index
\* chosen is low = gray div 85 or high = min(low + 1, 3); it is in 0..3 and the
\* byte emitted is 0x10, 0x21, 0x28 or 0xAA.
C25_IndexInRange ==
  quant.cl # -1
    => /\ quant.cl \in {quant.gray \div 85,
                        IF quant.gray \div 85 + 1 > 3 THEN 3 ELSE quant.gray \div 85 + 1}
       /\ quant.cl \in 0..3
       /\ palette[quant.cl + 1] \in {16, 33, 40, 170}

\* luminance 254 in random mode with the draw 0: the high index, which is 3
C25_Witness ==
  /\ quant.gray = 254 /\ quant.mix /\ quant.draw = 0
  /\ quant.cl = 3

\* every pixel of the image has the same luminance
Flat(image) == \A p, q \in DOMAIN image : image[p] = image[q]

\* the symbols Convert has passed to the interleaver: the bytes other than the
\* initial 0 of the ring, in the ring, the sector buffer and the file
SeqSymbols ==
  ({intseq[f][n] : f \in DOMAIN intseq, n \in 1..24}
     \cup {buffer[k] : k \in 1..Len(buffer)}
     \cup {seqFile[k] : k \in 1..Len(seqFile)}) \ {0}

\* C26 as stated: with a flat image (and ordered dithering) all symbols Convert
\* emits are the same.
C26_Original == (Flat(img) /\ ~mixColors) => Cardinality(SeqSymbols) <= 1

\* C26 amended: with a flat image of luminance g and ordered dithering every
\* symbol Convert emits is palette[g div 85] or palette[min(g div 85 + 1, 3)],
\* and all are the same when the remainder g mod 85 is 0 or 84.
C26_FlatLowOrHigh ==
  (Flat(img) /\ ~mixColors)
    => LET g == img[0]
           low == g \div 85
           high == IF low + 1 > 3 THEN 3 ELSE low + 1
       IN /\ SeqSymbols \subseteq {palette[low + 1], palette[high + 1]}
          /\ g % 85 \in {0, 84} => Cardinality(SeqSymbols) <= 1

\* Convert has returned; the image is flat with remainder 45 and both the low
\* and the high symbol were emitted
C26_Witness ==
  /\ seqPc = "returned"
  /\ Flat(img)
  /\ img[0] = 130
  /\ SeqSymbols = {palette[2], palette[3]}

\* C27: with tr0 = 1000, dtr = 0, r0 = 24.5 and the budget of a CD the radius
\* step is 0; at the head of every track the sample count is 1000 and the radius
\* 24.5, and c is 1000 times the number of tracks begun; and the loop condition
\* fails after exactly floor(800 * 1024 * 1024 / 1000) = 838860 tracks.
C27_TrackCount ==
  /\ RadiusStep = 0
  /\ walk.h.tr = 1000 * Den
  /\ Trunc(walk.h.tr) = 1000
  /\ walk.h.r = r0
  /\ walk.h.c = walk.k * 1000 * Den
  /\ walk.k <= 838860
  /\ ~(walk.h.c < totalSize - walk.h.tr) => walk.k = CDTotalSize \div 1000

\* the loop condition has failed, after 838860 tracks
C27_Witness ==
  /\ ~(walk.h.c < totalSize - walk.h.tr)
  /\ walk.k = 838860

\* C28: when ConvertParallel has started its workers, the job channel and the
\* result channel have room for twice as many entries as workers were started.
C28_CapacityTwicePerWorker ==
  mainPc = "waitJobs"
    => chanCap = 2 * Cardinality({w \in DOMAIN wPc : wPc[w] = "recv"})

\* the calls of SetNumWorkers so far that changed the worker count
AcceptedCall(n) == n >= 1 /\ n <= 16
AcceptedCalls == SelectSeq(setCalls, AcceptedCall)

C30_ExplicitOverridesPreset ==
  [][(BurnStart /\ burnArgs.preset # "" /\ burnPc' = "created")
       => /\ tr0' = (IF burnArgs.tr0 # 0 THEN burnArgs.tr0
                     ELSE Presets[burnArgs.preset].Tr0)
          /\ dtr' = (IF burnArgs.dtr # 0 THEN burnArgs.dtr
                     ELSE Presets[burnArgs.preset].Dtr)]_vars

\* C31: ConvertParallel on a new converter returns, whatever the interleaving
\* and wherever the callback or the context cancels; the generator closes the
\* job channel once, when it ends, and sends nothing afterwards; the result
\* channel is closed once, by ConvertParallel, when every worker has exited, and
\* nothing is sent on it afterwards; a goroutine that has ended stays ended; and
\* when ConvertParallel returns, the generator, every worker and the collector
\* have ended.
C31_AlwaysReturns ==
  /\ <>(mainPc = "returned")
  /\ [](/\ jobsClosed <=> genPc = "done"
        /\ resultsClosed => \A w \in Workers : wPc[w] = "done"
        /\ resultsClosed <=> mainPc \in {"waitResults", "returned"}
        /\ mainPc = "returned"
             => /\ genPc = "done" /\ colPc = "done"
                /\ \A w \in Workers : wPc[w] = "done"
                /\ jobsClosed /\ resultsClosed /\ results = << >>)
  /\ [][/\ jobsClosed => (jobsClosed' /\ issued' = issued /\ Len(jobs') <= Len(jobs))
        /\ jobsClosed' # jobsClosed => (genPc = "send" \/ genPc = "loop") /\ genPc' = "done"
        /\ resultsClosed
             => (resultsClosed' /\ published' = published /\ Len(results') <= Len(results))
        /\ resultsClosed' # resultsClosed => mainPc = "waitWorkers"
        /\ genPc = "done" => genPc' = "done"
        /\ colPc = "done" => colPc' = "done"
        /\ \A w \in Workers : wPc[w] = "done" => wPc'[w] = "done"]_vars

\* the run was cancelled through the context while a job was still queued and a
\* worker held a finished track, and ConvertParallel has returned
C31_Witness ==
  /\ mainPc = "returned"
  /\ ctxDone
  /\ jobs # << >>
  /\ \E w \in Workers : wData[w] # << >> /\ wJob[w].trackIndex \notin DOMAIN published

\* the writes of track k that succeeded
WritesOf(k) == {j \in 1..Len(parWrites) : parWrites[j].track = k /\ parWrites[j].ok}

\* C32: when ConvertParallel has returned and neither the callback nor the context
\* cancelled and no write failed, the generator has issued the tracks 0..n-1 that
\* fit the budget, each of them was written to the file once, and trackBuffer is
\* empty with nextTrackToWrite = n.
C32_AllTracksWritten ==
  (mainPc = "returned" /\ ~cancelled /\ ~ctxDone /\ writeFails = 0)
    => /\ Len(issued) = SeqTrackCount
       /\ IndicesOf(issued) = [k \in 1..Len(issued) |-> k - 1]
       /\ \A k \in 0..(Len(issued) - 1) : Cardinality(WritesOf(k)) = 1
       /\ Len(parWrites) = Len(issued)
       /\ trackBuffer = << >>
       /\ nextTrackToWrite = Len(issued)
       /\ results = << >> /\ jobs = << >>

\* an uncancelled run of two workers has returned with its three tracks written
C32_Witness ==
  /\ mainPc = "returned"
  /\ ~cancelled /\ ~ctxDone /\ writeFails = 0
  /\ numWorkers = 2
  /\ nextTrackToWrite = 3
  /\ Len(parFile) = 8

\* the conversion has run to completion: Convert returned nil and left its file;
\* ConvertParallel returned with every track of the run written
RanToCompletion ==
  IF burnArgs.useMultithread
  THEN mainPc = "returned" /\ nextTrackToWrite = SeqTrackCount /\ parFileExists
  ELSE seqRet = "nil" /\ seqFileExists

\* C33: in the GUI the burn button is enabled, and the success dialog shown, only
\* when the conversion has run to completion, in sequential and in parallel mode;
\* a conversion that the Cancel button stopped short never enables it.
C33_BurnOnlyAfterCompletion ==
  /\ burnBtn => RanToCompletion
  /\ burnMsg = "Conversion completed successfully!" => RanToCompletion

\* the byte at position o of the stream after the step
StreamAtNext(o) ==
  IF o < Len(seqFile') THEN seqFile'[o + 1] ELSE buffer'[o - Len(seqFile') + 1]

\* C34: in Convert the bytes passed to the sector buffer so far (file and buffer)
\* are a whole number of frames of 24; a sample step that feeds the 24th symbol
\* of a frame advances the frame and passes the 24 slots of the new frame, in
\* increasing n, and any other sample step passes nothing, nor does the end of a
\* track; and when Convert has returned nil after feeding N symbols the file
\* holds 24 * floor(N / 24) bytes, the N mod 24 symbols of the last frame begun
\* being left in the ring.
C34_FrameEmission ==
  /\ [](/\ (seqRet \in {"none", "nil"} /\ seqPc # "returned") => StreamLen % 24 = 0
        /\ seqRet = "nil"
             => /\ Len(seqFile) = 24 * (SeqSampleCount \div 24)
                /\ pinf = SeqSampleCount % 24)
  /\ [][/\ (seqPc = "track" /\ i' = i + 1 /\ seqRet' = "none")
             => IF pinf = 23
                THEN /\ pinf' = 0
                     /\ nh' = (nh + 1) % Frames
                     /\ Len(seqFile') + Len(buffer') = StreamLen + 24
                     /\ \A n \in 0..23 :
                          StreamAtNext(StreamLen + n) = SlotAt(intseq', n2m(nh', n))
                ELSE /\ pinf' = pinf + 1
                     /\ UNCHANGED << nh, buffer, seqFile, seqWrites >>
        /\ (seqPc = "track" /\ seqPc' = "loop")
             => UNCHANGED << convVars, seqFile, seqWrites >>]_vars

\* Convert has returned nil with more than two sectors written and an incomplete
\* last frame left in the ring
C34_Witness ==
  /\ seqRet = "nil"
  /\ Len(seqFile) > 2 * SectorSize
  /\ pinf > 0
  /\ SeqSampleCount % 24 = pinf

\* C35: every call of Convert starts with the ring all zero, pinf = 0, nh = 111
\* and an empty sector buffer, and a later call on the same Converter, with the
\* same image and ordered dithering, leaves the file the first call left.
C35_SameOutputAgain ==
  /\ (seqPc = "loop" /\ c = 0)
       => (intseq = << >> /\ pinf = 0 /\ nh = 28 * D - 1 /\ buffer = << >>)
  /\ (seqPc = "returned" /\ seqRet = "nil") => seqFile = ConvertOutput

\* C36: with tr0 > 0 and dtr >= 0, in Convert and in the job generator the
\* accumulated sample count is below the budget at the head of the loop and
\* after every track, a track having started only while c < totalSize - tr; and
\* every progress value reported is in 0..99.
C36_BelowBudget ==
  /\ tr0 > 0 /\ dtr >= 0
  /\ c < totalSize
  /\ gc < totalSize
  /\ seqPc = "track" => c < totalSize - tr
  /\ genPc = "send" => gc < totalSize - gtr
  /\ \A k \in 1..Len(seqProgress) : seqProgress[k] \in 0..99
  /\ \A k \in 1..Len(parProgress) : parProgress[k] \in 0..99

\* both drivers are through, half a symbol short of the budget, and the last
\* value each has reported is 99
C36_Witness ==
  /\ seqPc = "returned"
  /\ genPc = "done"
  /\ totalSize - c = 1
  /\ totalSize - gc = 1
  /\ seqProgress[Len(seqProgress)] = 99
  /\ parProgress[Len(parProgress)] = 99

====
